---- MODULE Spec2Model ----
(***************************************************************************)
(* Plugin runtime of the image viewer backend (src-tauri/src):             *)
(*   core/event_bus.rs       EventBus                                      *)
(*   core/plugin_context.rs  PluginContext (shared-data store)             *)
(*   core/plugin_manager.rs  PluginManager (Mutex-protected plugin map)    *)
(*   plugins/registry.rs     PluginRegistry (RwLock-protected plugin map)  *)
(*   plugins/mod.rs          plugins::initialize, register_enabled_plugins *)
(*                                                                         *)
(* Rust Strings are modelled as sequences of tokens, so that format! and   *)
(* join are concatenations and "contains" is a sub-sequence test.          *)
(* Option<T> is <<>> (None) or <<x>> (Some(x)); Result is a record         *)
(* [ok, err] whose err is the error value.                                 *)
(***************************************************************************)
EXTENDS Naturals, Sequences, FiniteSets, TLC

VARIABLES
    handlers,            \* EventBus.handlers: event type -> Vec<EventHandler>
    component_handlers,  \* EventBus.component_handlers: component -> event type -> Vec
    next_handler,        \* identity given to the next subscribed closure
    dispatched,          \* the last publish_* call: its payload, result and invocations
    shared_data,         \* PluginContext.shared_data: key -> Box<dyn Any>
    ctx_last,            \* the last set_shared_data / get_shared_data call
    set_log,             \* history: every set_shared_data call so far, in order
    kind,                \* which plugin map this run drives: PluginManager or PluginRegistry
    features,            \* cargo features the build enables (cfg(feature = ..))
    plugins,             \* PluginManager.plugins / PluginRegistry.plugins: id -> entry
    next_inst,           \* identity given to the next Box<dyn Plugin> that is created
    call,                \* per thread: the API call in progress (or the last one finished)
    reentry,             \* a dispatch whose handlers call the bus: frames, closures' calls
    resource_manager,    \* ResourceManager: config_cache, path_cache, the files, last call
    image_collection,    \* an ImageCollection and the collection last derived from it
    builtin_states       \* AllViewerState and FindMeState, and the last call on them

busVars == <<handlers, component_handlers, next_handler, dispatched>>
ctxVars == <<shared_data, ctx_last, set_log>>
plugVars == <<kind, features, plugins, next_inst, call>>
extVars == <<reentry, resource_manager, image_collection, builtin_states>>
vars == <<handlers, component_handlers, next_handler, dispatched, shared_data, ctx_last,
          set_log, kind, features, plugins, next_inst, call, reentry, resource_manager,
          image_collection, builtin_states>>

-----------------------------------------------------------------------------
(* Bounds and input sets *)

MaxHandlers == 2
MaxLifecycleHandlers == 1
MaxInst == 2
MaxSets == 3

EventTypes == {"E", "F"}
Components == {"X", "Y"}
Sources == {"S", "X"}
DataValues == {"d"}
Keys == {"k1", "k2"}
TypeIds == {"i32", "String"}
Values == {"v1", "v2"}
PluginIds == {"allviewer", "findme"}
FeatureFlags == {"plugin-allviewer", "plugin-findme"}
\* Whether a subscriber of a lifecycle event returns Err: one returning Ok changes
\* no result of a lifecycle call, so the lifecycle runs subscribe failing ones.
SubscriberFails == {TRUE}
AllThreads == {1, 2}
SeqThreads == {1}
ConcIds == {"allviewer"}
ConcKeys == {"k1"}
ConcTypeIds == {"i32"}
ConcValues == {"v1"}

-----------------------------------------------------------------------------
(* Option, Result and HashMap helpers *)

None == <<>>
Some(x) == <<x>>

Ok == [ok |-> TRUE, err |-> <<>>]
Err(e) == [ok |-> FALSE, err |-> e]

EmptyMap == <<>>
MapPut(m, k, v) == [x \in (DOMAIN m) \cup {k} |-> IF x = k THEN v ELSE m[x]]
MapRemove(m, k) == [x \in (DOMAIN m) \ {k} |-> m[x]]

\* s contains sub as a contiguous run (str::contains on token sequences)
Contains(s, sub) ==
    \E i \in 0..(Len(s) - Len(sub)) : SubSeq(s, i + 1, i + Len(sub)) = sub

\* Vec<String>::join(sep)
RECURSIVE Join(_, _)
Join(strs, sep) ==
    IF Len(strs) = 0 THEN <<>>
    ELSE IF Len(strs) = 1 THEN strs[1]
    ELSE strs[1] \o sep \o Join(Tail(strs), sep)

-----------------------------------------------------------------------------
(* EventBus *)

EventPayload(event_type, data, source, target) ==
    [event_type |-> event_type, data |-> data, source |-> source, target |-> target]

\* A subscribed closure: its identity and what it returns when called.
EventHandler(hid, fails) == [hid |-> hid, fails |-> fails]

HandlerMessage(h) == <<"handler-", ToString(h.hid), "-failed">>

\* handler(payload)
CallHandler(h, payload) == IF h.fails THEN Err(HandlerMessage(h)) ELSE Ok

GlobalPrefix == <<"Global handler error: ">>
ComponentPrefix(target_id) == <<"Component handler error for ", target_id, ": ">>

\* `for handler in event_handlers { if let Err(e) = handler(..) { push } }`
RECURSIVE RunHandlersFrom(_, _, _, _, _)
RunHandlersFrom(event_handlers, i, payload, prefix, acc) ==
    IF i > Len(event_handlers) THEN acc
    ELSE LET h == event_handlers[i]
             r == CallHandler(h, payload)
             inv == Append(acc.invoked, [hid |-> h.hid, payload |-> payload, returned |-> r])
             errs == IF r.ok THEN acc.errors
                     ELSE Append(acc.errors, prefix \o r.err)
         IN RunHandlersFrom(event_handlers, i + 1, payload, prefix,
                            [invoked |-> inv, errors |-> errs])

\* Mutant: the loop leaves at the first handler that fails
RECURSIVE RunHandlers_StopAtFirstError(_, _, _, _)
RunHandlers_StopAtFirstError(event_handlers, payload, prefix, acc) ==
    IF Len(event_handlers) = 0 THEN acc
    ELSE LET h == event_handlers[1]
             r == CallHandler(h, payload)
             inv == Append(acc.invoked, [hid |-> h.hid, payload |-> payload, returned |-> r])
         IN IF r.ok
            THEN RunHandlers_StopAtFirstError(Tail(event_handlers), payload, prefix,
                                              [invoked |-> inv, errors |-> acc.errors])
            ELSE [invoked |-> inv, errors |-> Append(acc.errors, prefix \o r.err)]

RunHandlers(event_handlers, payload, prefix, acc) ==
    RunHandlersFrom(event_handlers, 1, payload, prefix, acc)

GlobalHandlersFor(hs, event_type) ==
    IF event_type \in DOMAIN hs THEN hs[event_type] ELSE <<>>

ComponentHandlersFor(chs, target_id, event_type) ==
    IF target_id \in DOMAIN chs /\ event_type \in DOMAIN chs[target_id]
    THEN chs[target_id][event_type]
    ELSE <<>>

\* Mutant: the collected errors are dropped
DispatchResult_IgnoresErrors(dispatch_errors) == Ok

DispatchResult(dispatch_errors) ==
    IF Len(dispatch_errors) = 0 THEN Ok ELSE Err(Join(dispatch_errors, <<"; ">>))

\* Mutant: without a target, the source's component handlers are delivered to
DispatchEvent_SourceAsTarget(hs, chs, payload) ==
    LET g == RunHandlers(GlobalHandlersFor(hs, payload.event_type), payload,
                         GlobalPrefix, [invoked |-> <<>>, errors |-> <<>>])
        to == IF payload.target # None THEN payload.target ELSE payload.source
        c == IF to = None THEN g
             ELSE RunHandlers(ComponentHandlersFor(chs, to[1], payload.event_type),
                              payload, ComponentPrefix(to[1]), g)
    IN [result |-> DispatchResult(c.errors), invoked |-> c.invoked,
        errors |-> c.errors]

\* Mutant: the target's component handlers are never delivered to
DispatchEvent_GlobalOnly(hs, chs, payload) ==
    LET g == RunHandlers(GlobalHandlersFor(hs, payload.event_type), payload,
                         GlobalPrefix, [invoked |-> <<>>, errors |-> <<>>])
    IN [result |-> DispatchResult(g.errors), invoked |-> g.invoked, errors |-> g.errors]

\* Mutant: the target's component handlers are delivered to before the global ones
DispatchEvent_ComponentFirst(hs, chs, payload) ==
    LET c == IF payload.target = None THEN [invoked |-> <<>>, errors |-> <<>>]
             ELSE RunHandlers(
                     ComponentHandlersFor(chs, payload.target[1], payload.event_type),
                     payload, ComponentPrefix(payload.target[1]),
                     [invoked |-> <<>>, errors |-> <<>>])
        g == RunHandlers(GlobalHandlersFor(hs, payload.event_type), payload,
                         GlobalPrefix, c)
    IN [result |-> DispatchResult(g.errors), invoked |-> g.invoked,
        errors |-> g.errors]

\* EventBus::dispatch_event: the result and the handler invocations, in order
DispatchEvent(hs, chs, payload) ==
    LET g == RunHandlers(GlobalHandlersFor(hs, payload.event_type), payload,
                         GlobalPrefix, [invoked |-> <<>>, errors |-> <<>>])
        c == IF payload.target = None THEN g
             ELSE RunHandlers(
                     ComponentHandlersFor(chs, payload.target[1], payload.event_type),
                     payload, ComponentPrefix(payload.target[1]), g)
    IN [result |-> DispatchResult(c.errors), invoked |-> c.invoked,
        errors |-> c.errors]

\* The record of a publish_* call: its arguments, result and invocations
Dispatched(op, event_type, data, source, target, d) ==
    [op |-> op, event_type |-> event_type, data |-> data, source |-> source,
     target |-> target, result |-> d.result, invoked |-> d.invoked, errors |-> d.errors]

NoDispatch ==
    Dispatched("none", "", "", None, None, [result |-> Ok, invoked |-> <<>>, errors |-> <<>>])

\* EventBus::subscribe
SubscribePush(hs, event_type, h) ==
    MapPut(hs, event_type, Append(GlobalHandlersFor(hs, event_type), h))

\* EventBus::subscribe_component
SubscribeComponentPush(chs, component_id, event_type, h) ==
    LET component_entry == IF component_id \in DOMAIN chs THEN chs[component_id]
                           ELSE EmptyMap
        entry == IF event_type \in DOMAIN component_entry
                 THEN component_entry[event_type] ELSE <<>>
    IN MapPut(chs, component_id, MapPut(component_entry, event_type, Append(entry, h)))

Subscribe(event_type, fails) ==
    /\ next_handler <= MaxHandlers
    /\ handlers' = SubscribePush(handlers, event_type, EventHandler(next_handler, fails))
    /\ next_handler' = next_handler + 1
    /\ dispatched' = NoDispatch
    /\ UNCHANGED <<extVars, component_handlers, ctxVars, plugVars>>

SubscribeComponent(component_id, event_type, fails) ==
    /\ next_handler <= MaxHandlers
    /\ component_handlers' = SubscribeComponentPush(component_handlers, component_id,
                                 event_type, EventHandler(next_handler, fails))
    /\ next_handler' = next_handler + 1
    /\ dispatched' = NoDispatch
    /\ UNCHANGED <<extVars, handlers, ctxVars, plugVars>>

Publish(event_type, data) ==
    /\ dispatched' = Dispatched("publish", event_type, data, None, None,
                          DispatchEvent(handlers, component_handlers,
                                        EventPayload(event_type, data, None, None)))
    /\ UNCHANGED <<extVars, handlers, component_handlers, next_handler, ctxVars, plugVars>>

PublishFrom(source_id, event_type, data) ==
    /\ dispatched' = Dispatched("publish_from", event_type, data, Some(source_id), None,
                          DispatchEvent(handlers, component_handlers,
                              EventPayload(event_type, data, Some(source_id), None)))
    /\ UNCHANGED <<extVars, handlers, component_handlers, next_handler, ctxVars, plugVars>>

PublishTo(target_id, event_type, data) ==
    /\ dispatched' = Dispatched("publish_to", event_type, data, None, Some(target_id),
                          DispatchEvent(handlers, component_handlers,
                              EventPayload(event_type, data, None, Some(target_id))))
    /\ UNCHANGED <<extVars, handlers, component_handlers, next_handler, ctxVars, plugVars>>

PublishBetween(source_id, target_id, event_type, data) ==
    /\ dispatched' = Dispatched("publish_between", event_type, data, Some(source_id),
                          Some(target_id),
                          DispatchEvent(handlers, component_handlers,
                              EventPayload(event_type, data, Some(source_id),
                                           Some(target_id))))
    /\ UNCHANGED <<extVars, handlers, component_handlers, next_handler, ctxVars, plugVars>>

\* Mutant: every component's handlers are dropped
UnsubscribeComponent_AllComponents(component_id) ==
    /\ component_handlers' = EmptyMap
    /\ dispatched' = NoDispatch
    /\ UNCHANGED <<extVars, handlers, next_handler, ctxVars, plugVars>>

UnsubscribeComponent(component_id) ==
    /\ component_handlers' = MapRemove(component_handlers, component_id)
    /\ dispatched' = NoDispatch
    /\ UNCHANGED <<extVars, handlers, next_handler, ctxVars, plugVars>>

ClearAllHandlers ==
    /\ handlers' = EmptyMap
    /\ component_handlers' = EmptyMap
    /\ dispatched' = NoDispatch
    /\ UNCHANGED <<extVars, next_handler, ctxVars, plugVars>>

-----------------------------------------------------------------------------
(* PluginContext: the shared-data store *)

\* Box<dyn Any>: the value together with its TypeId
Boxed(type_id, value) == [type_id |-> type_id, value |-> value]

TypeMismatch(key) == <<"Type mismatch for key: ", key>>

\* Mutant: the stored TypeId is not compared
DowncastRef_Unchecked(boxed, type_id) == Some(boxed.value)

\* value.downcast_ref::<T>()
DowncastRef(boxed, type_id) ==
    IF boxed.type_id = type_id THEN Some(boxed.value) ELSE None

\* PluginContext::get_shared_data::<T>(key): Result<Option<T>, String>
GetSharedDataResult(data, key, type_id) ==
    IF key \in DOMAIN data
    THEN LET typed_value == DowncastRef(data[key], type_id)
         IN IF typed_value # None
            THEN [ok |-> TRUE, value |-> Some(typed_value[1]), err |-> <<>>]
            ELSE [ok |-> FALSE, value |-> None, err |-> TypeMismatch(key)]
    ELSE [ok |-> TRUE, value |-> None, err |-> <<>>]

\* Mutant: HashMap::entry(key).or_insert(value), an existing value is kept
SetSharedData_KeepsExisting(key, type_id, value) ==
    /\ Len(set_log) < MaxSets
    /\ shared_data' = IF key \in DOMAIN shared_data THEN shared_data
                      ELSE MapPut(shared_data, key, Boxed(type_id, value))
    /\ set_log' = Append(set_log, [key |-> key, type_id |-> type_id, value |-> value])
    /\ ctx_last' = [op |-> "set_shared_data", key |-> key, type_id |-> type_id,
                    result |-> [ok |-> TRUE, value |-> None, err |-> <<>>],
                    before |-> shared_data]
    /\ UNCHANGED <<extVars, busVars, plugVars>>

\* Mutant: set_shared_data goes through the plugin map's lock and waits for
\* the lifecycle call that is in progress
SetSharedData_WaitsForLifecycle(key, type_id, value) ==
    /\ \A t \in DOMAIN call : call[t].pc = "idle"
    /\ Len(set_log) < MaxSets
    /\ shared_data' = MapPut(shared_data, key, Boxed(type_id, value))
    /\ set_log' = Append(set_log, [key |-> key, type_id |-> type_id, value |-> value])
    /\ ctx_last' = [op |-> "set_shared_data", key |-> key, type_id |-> type_id,
                    result |-> [ok |-> TRUE, value |-> None, err |-> <<>>],
                    before |-> shared_data]
    /\ UNCHANGED <<extVars, busVars, plugVars>>

\* PluginContext::set_shared_data: data.insert(key.to_string(), Box::new(value))
SetSharedData(key, type_id, value) ==
    /\ Len(set_log) < MaxSets
    /\ shared_data' = MapPut(shared_data, key, Boxed(type_id, value))
    /\ set_log' = Append(set_log, [key |-> key, type_id |-> type_id, value |-> value])
    /\ ctx_last' = [op |-> "set_shared_data", key |-> key, type_id |-> type_id,
                    result |-> [ok |-> TRUE, value |-> None, err |-> <<>>],
                    before |-> shared_data]
    /\ UNCHANGED <<extVars, busVars, plugVars>>

GetSharedData(key, type_id) ==
    /\ ctx_last' = [op |-> "get_shared_data", key |-> key, type_id |-> type_id,
                    result |-> GetSharedDataResult(shared_data, key, type_id),
                    before |-> shared_data]
    /\ UNCHANGED <<extVars, shared_data, set_log, busVars, plugVars>>

NoCtxCall == [op |-> "none", key |-> "", type_id |-> "",
              result |-> [ok |-> TRUE, value |-> None, err |-> <<>>],
              before |-> EmptyMap]

-----------------------------------------------------------------------------
(* Plugin lifecycle: what PluginManager and PluginRegistry share *)

PluginStates == {"Registered", "Initialized", "Active", "Inactive", "Error"}

\* What a plugin callback (initialize / activate / deactivate) may return:
\* PluginResult<()> = Result<(), String>, the message being the plugin's choice.
CallbackResults == {Ok, Err(<<"callback failed">>), Err(<<>>)}

PluginEventTypes == {"plugin:registered", "plugin:initialized", "plugin:activated",
                     "plugin:deactivated", "plugin:unregistered", "plugin:error"}

\* serde_json::json!({"plugin_id": plugin_id})
PluginEvent(event_type, plugin_id) ==
    EventPayload(event_type, [plugin_id |-> plugin_id], None, None)

\* serde_json::json!({"plugin_id": .., "error": .., "operation": ..})
PluginErrorEvent(plugin_id, error, operation) ==
    EventPayload("plugin:error",
                 [plugin_id |-> plugin_id, error |-> error, operation |-> operation],
                 None, None)

\* The record of one API call of a thread. pc is the place the thread is at
\* ("idle": no call in progress, the record then describes the last call);
\* op the API function called, fn the function executing (a nested call differs);
\* plugin_ref the instance whose callback is (about to be) invoked; e the
\* callback's result; events what the call published, callbacks what it invoked,
\* written the states it stored; before the plugin map when the call started;
\* value what a query returned inside its Ok.
NewCall(op, plugin_id, plugin) ==
    [pc |-> "idle", op |-> op, fn |-> op, id |-> plugin_id, plugin |-> plugin,
     plugin_ref |-> 0, e |-> Ok, res |-> Ok, value |-> None, stage |-> 0,
     events |-> <<>>, callbacks |-> <<>>, written |-> <<>>, before |-> plugins]

NoCall ==
    [pc |-> "idle", op |-> "none", fn |-> "none", id |-> "", plugin |-> 0,
     plugin_ref |-> 0, e |-> Ok, res |-> Ok, value |-> None, stage |-> 0,
     events |-> <<>>, callbacks |-> <<>>, written |-> <<>>, before |-> EmptyMap]

At(c, pc) == [c EXCEPT !.pc = pc]

\* event_bus.publish(..) from inside a call: the event, whether the plugin map's
\* lock is held meanwhile, and the dispatch result.
Published(c, payload, locked, result) ==
    [c EXCEPT !.events = Append(@, [payload |-> payload, locked |-> locked,
                                    result |-> result])]

Invoked(c, callback, r) ==
    [c EXCEPT !.callbacks = Append(@, [callback |-> callback, inst |-> c.plugin_ref,
                                       returned |-> r]),
              !.e = r]

Wrote(c, state) == [c EXCEPT !.written = Append(@, state)]

PanicUnwrapNone == Err(<<"panicked: called Option::unwrap() on a None value">>)

\* plugins::register_enabled_plugins: the cfg(feature) blocks, in source order
BuiltinPlugins ==
    << [id |-> "allviewer", feature |-> "plugin-allviewer", name |-> "AllViewer"],
       [id |-> "findme", feature |-> "plugin-findme", name |-> "FindMe"] >>

\* #[error("...")] of PluginRegistryError (its Display)
Display(e) ==
    IF e[1] = "PluginAlreadyExists" THEN <<"Plugin with ID '", e[2], "' already exists">>
    ELSE IF e[1] = "PluginNotFound" THEN <<"Plugin with ID '", e[2], "' not found">>
    ELSE IF e[1] = "InitializationFailed"
         THEN <<"Failed to initialize plugin '", e[2], "': ">> \o SubSeq(e, 3, Len(e))
    ELSE IF e[1] = "OperationError"
         THEN <<"Error during plugin operation: ">> \o Tail(e)
    ELSE <<"Plugin system error: ">> \o Tail(e)

\* The function `fn` of call c returns r: the call ends, or its caller goes on.
\*   activate_plugin:   self.initialize_plugin(plugin_id)?;
\*   unregister_plugin: self.deactivate_plugin(plugin_id)?;
\*   register_enabled_plugins: registry.register_plugin(plugin).map_err(..)?;
Return(c, r) ==
    IF c.fn = c.op THEN [c EXCEPT !.pc = "idle", !.res = r]
    ELSE IF c.op = "activate_plugin"
    THEN IF r.ok THEN [c EXCEPT !.pc = "act_relock", !.fn = c.op]
         ELSE [c EXCEPT !.pc = "idle", !.res = r, !.fn = c.op]
    ELSE IF c.op = "unregister_plugin"
    THEN IF r.ok THEN [c EXCEPT !.pc = "unreg_remove", !.fn = c.op]
         ELSE [c EXCEPT !.pc = "idle", !.res = r, !.fn = c.op]
    ELSE \* plugins_initialize
         IF r.ok THEN [c EXCEPT !.pc = "boot_next", !.fn = c.op]
         ELSE [c EXCEPT !.pc = "idle", !.fn = c.op,
                        !.res = Err(<<"Failed to register ", BuiltinPlugins[c.stage].name,
                                      " plugin: ">> \o Display(r.err))]

SetCall(t, c) == call' = [call EXCEPT ![t] = c]

-----------------------------------------------------------------------------
(* core/plugin_manager.rs: PluginManager *)

PluginRegistration(plugin, state, error) ==
    [inst |-> plugin, state |-> state, error |-> error]

MgrAlreadyRegistered(id) == <<"Plugin with ID '", id, "' is already registered">>
MgrNotFound(id) == <<"Plugin with ID '", id, "' not found">>
MgrNotRegisterable(id) == <<"Plugin '", id, "' is not in a registerable state">>
\* Mutant: the stored message is left out of the error
MgrCannotActivate_Generic(error) ==
    <<"Cannot activate plugin in error state: ">> \o <<"Unknown error">>

MgrCannotActivate(error) ==
    <<"Cannot activate plugin in error state: ">>
        \o (IF error = None THEN <<"Unknown error">> ELSE error[1])

\* `event_bus.publish(..)?; Ok(())` and `event_bus.publish(..)?; Err(e)`
MgrAfterPublish(published, otherwise) == IF published.ok THEN otherwise ELSE published

\* register_plugin, the whole body under the plugins lock
MgrRegisterPlugin(ps, hs, chs, c) ==
    IF c.id \in DOMAIN ps
    THEN [plugins |-> ps, call |-> Return(c, Err(MgrAlreadyRegistered(c.id)))]
    ELSE LET payload == PluginEvent("plugin:registered", c.id)
             d == DispatchEvent(hs, chs, payload)
         IN [plugins |-> MapPut(ps, c.id, PluginRegistration(c.plugin, "Registered", None)),
             call |-> Return(Published(c, payload, TRUE, d.result),
                             MgrAfterPublish(d.result, Ok))]

M_Register(t, id) ==
    /\ kind = "manager"
    /\ call[t].pc = "idle"
    /\ next_inst <= MaxInst
    /\ LET r == MgrRegisterPlugin(plugins, handlers, component_handlers,
                                  NewCall("register_plugin", id, next_inst))
       IN /\ plugins' = r.plugins
          /\ SetCall(t, r.call)
          /\ next_inst' = IF r.plugins = plugins THEN next_inst ELSE next_inst + 1
    /\ UNCHANGED <<extVars, kind, features, busVars, ctxVars>>

\* Mutant: initialize_plugin does not look at the state
MgrInitializeCheck_AnyState(ps, c) ==
    IF c.id \in DOMAIN ps
    THEN [c EXCEPT !.pc = "init_callback", !.plugin_ref = ps[c.id].inst]
    ELSE Return(c, Err(MgrNotFound(c.id)))

\* initialize_plugin, first lock region: the state check
MgrInitializeCheck(ps, c) ==
    IF c.id \in DOMAIN ps
    THEN IF ps[c.id].state # "Registered"
         THEN Return(c, Err(MgrNotRegisterable(c.id)))
         ELSE [c EXCEPT !.pc = "init_callback", !.plugin_ref = ps[c.id].inst]
    ELSE Return(c, Err(MgrNotFound(c.id)))

\* Mutant: a failed callback leaves the entry as it was
MgrStore_IgnoresFailure(ps, id, r, state) ==
    IF id \in DOMAIN ps /\ r.ok
    THEN [ps EXCEPT ![id].state = state, ![id].error = None]
    ELSE ps

\* The state update after a callback: `if let Some(registration) = plugins.get_mut(id)`
MgrStore(ps, id, r, state) ==
    IF id \in DOMAIN ps
    THEN IF r.ok THEN [ps EXCEPT ![id].state = state, ![id].error = None]
         ELSE [ps EXCEPT ![id].state = "Error", ![id].error = Some(r.err)]
    ELSE ps

\* After a callback: store the state, release the lock, publish, return.
MgrCommit(ps, hs, chs, c, state, event_type, operation) ==
    LET payload == IF c.e.ok THEN PluginEvent(event_type, c.id)
                   ELSE PluginErrorEvent(c.id, c.e.err, operation)
        d == DispatchEvent(hs, chs, payload)
        stored == MgrStore(ps, c.id, c.e, state)
        c1 == IF c.id \in DOMAIN ps THEN Wrote(c, stored[c.id].state) ELSE c
    IN [plugins |-> stored,
        call |-> Return(Published(c1, payload, FALSE, d.result),
                        MgrAfterPublish(d.result, c.e))]

M_Initialize(t, id) ==
    /\ kind = "manager"
    /\ call[t].pc = "idle"
    /\ SetCall(t, MgrInitializeCheck(plugins, NewCall("initialize_plugin", id, 0)))
    /\ UNCHANGED <<extVars, kind, features, plugins, next_inst, busVars, ctxVars>>

\* initialize_plugin called by activate_plugin
M_InitCheck(t) ==
    /\ call[t].pc = "init_check"
    /\ SetCall(t, MgrInitializeCheck(plugins, call[t]))
    /\ UNCHANGED <<extVars, kind, features, plugins, next_inst, busVars, ctxVars>>

\* plugin_instance.initialize(context), outside the lock
M_InitCallback(t, r) ==
    /\ call[t].pc = "init_callback"
    /\ SetCall(t, At(Invoked(call[t], "initialize", r), "init_commit"))
    /\ UNCHANGED <<extVars, kind, features, plugins, next_inst, busVars, ctxVars>>

M_InitCommit(t) ==
    /\ call[t].pc = "init_commit"
    /\ LET r == MgrCommit(plugins, handlers, component_handlers, call[t],
                          "Initialized", "plugin:initialized", "initialize")
       IN plugins' = r.plugins /\ SetCall(t, r.call)
    /\ UNCHANGED <<extVars, kind, features, next_inst, busVars, ctxVars>>

\* Mutant: activate_plugin tries again on a plugin in state Error
MgrActivateCheck_RetriesError(ps, c) ==
    IF c.id \in DOMAIN ps
    THEN LET registration == ps[c.id]
         IN IF registration.state = "Registered"
            THEN [c EXCEPT !.pc = "init_check", !.fn = "initialize_plugin"]
            ELSE IF registration.state = "Active" THEN Return(c, Ok)
            ELSE [c EXCEPT !.pc = "act_callback", !.plugin_ref = registration.inst]
    ELSE Return(c, Err(MgrNotFound(c.id)))

\* Mutant: activate_plugin initializes every plugin that is not Active
MgrActivateCheck_InitializesAgain(ps, c) ==
    IF c.id \in DOMAIN ps
    THEN LET registration == ps[c.id]
         IN IF registration.state = "Active" THEN Return(c, Ok)
            ELSE IF registration.state = "Error"
                 THEN Return(c, Err(MgrCannotActivate(registration.error)))
            ELSE [c EXCEPT !.pc = "init_check", !.fn = "initialize_plugin"]
    ELSE Return(c, Err(MgrNotFound(c.id)))

\* activate_plugin, first lock region
MgrActivateCheck(ps, c) ==
    IF c.id \in DOMAIN ps
    THEN LET registration == ps[c.id]
         IN IF registration.state = "Registered"
            THEN [c EXCEPT !.pc = "init_check", !.fn = "initialize_plugin"]
            ELSE IF registration.state = "Active" THEN Return(c, Ok)
            ELSE IF registration.state = "Error"
                 THEN Return(c, Err(MgrCannotActivate(registration.error)))
            ELSE [c EXCEPT !.pc = "act_callback", !.plugin_ref = registration.inst]
    ELSE Return(c, Err(MgrNotFound(c.id)))

\* activate_plugin after initialize_plugin: plugins.get_mut(plugin_id).unwrap()
MgrActivateRelock(ps, c) ==
    IF c.id \in DOMAIN ps
    THEN [c EXCEPT !.pc = "act_callback", !.plugin_ref = ps[c.id].inst]
    ELSE [c EXCEPT !.pc = "idle", !.res = PanicUnwrapNone]

M_Activate(t, id) ==
    /\ kind = "manager"
    /\ call[t].pc = "idle"
    /\ SetCall(t, MgrActivateCheck(plugins, NewCall("activate_plugin", id, 0)))
    /\ UNCHANGED <<extVars, kind, features, plugins, next_inst, busVars, ctxVars>>

M_ActRelock(t) ==
    /\ call[t].pc = "act_relock"
    /\ SetCall(t, MgrActivateRelock(plugins, call[t]))
    /\ UNCHANGED <<extVars, kind, features, plugins, next_inst, busVars, ctxVars>>

\* plugin_instance.activate(), outside the lock
M_ActCallback(t, r) ==
    /\ call[t].pc = "act_callback"
    /\ SetCall(t, At(Invoked(call[t], "activate", r), "act_commit"))
    /\ UNCHANGED <<extVars, kind, features, plugins, next_inst, busVars, ctxVars>>

M_ActCommit(t) ==
    /\ call[t].pc = "act_commit"
    /\ LET r == MgrCommit(plugins, handlers, component_handlers, call[t],
                          "Active", "plugin:activated", "activate")
       IN plugins' = r.plugins /\ SetCall(t, r.call)
    /\ UNCHANGED <<extVars, kind, features, next_inst, busVars, ctxVars>>

\* Mutant: deactivate_plugin does not look at the state
MgrDeactivateCheck_AnyState(ps, c) ==
    IF c.id \in DOMAIN ps
    THEN [c EXCEPT !.pc = "deact_callback", !.plugin_ref = ps[c.id].inst]
    ELSE Return(c, Err(MgrNotFound(c.id)))

\* deactivate_plugin, first lock region
MgrDeactivateCheck(ps, c) ==
    IF c.id \in DOMAIN ps
    THEN IF ps[c.id].state # "Active" THEN Return(c, Ok)
         ELSE [c EXCEPT !.pc = "deact_callback", !.plugin_ref = ps[c.id].inst]
    ELSE Return(c, Err(MgrNotFound(c.id)))

M_Deactivate(t, id) ==
    /\ kind = "manager"
    /\ call[t].pc = "idle"
    /\ SetCall(t, MgrDeactivateCheck(plugins, NewCall("deactivate_plugin", id, 0)))
    /\ UNCHANGED <<extVars, kind, features, plugins, next_inst, busVars, ctxVars>>

\* deactivate_plugin called by unregister_plugin
M_DeactCheck(t) ==
    /\ call[t].pc = "deact_check"
    /\ SetCall(t, MgrDeactivateCheck(plugins, call[t]))
    /\ UNCHANGED <<extVars, kind, features, plugins, next_inst, busVars, ctxVars>>

\* plugin_instance.deactivate(), outside the lock
M_DeactCallback(t, r) ==
    /\ call[t].pc = "deact_callback"
    /\ SetCall(t, At(Invoked(call[t], "deactivate", r), "deact_commit"))
    /\ UNCHANGED <<extVars, kind, features, plugins, next_inst, busVars, ctxVars>>

M_DeactCommit(t) ==
    /\ call[t].pc = "deact_commit"
    /\ LET r == MgrCommit(plugins, handlers, component_handlers, call[t],
                          "Inactive", "plugin:deactivated", "deactivate")
       IN plugins' = r.plugins /\ SetCall(t, r.call)
    /\ UNCHANGED <<extVars, kind, features, next_inst, busVars, ctxVars>>

\* PluginManager::get_plugin_state
MgrGetPluginState(ps, id) ==
    IF id \in DOMAIN ps THEN [ok |-> TRUE, state |-> ps[id].state, err |-> <<>>]
    ELSE [ok |-> FALSE, state |-> "", err |-> MgrNotFound(id)]

\* Mutant: get_plugin_error fails for a plugin that has no error recorded
MgrGetPluginError_FailsWithoutError(ps, id) ==
    IF id \in DOMAIN ps /\ ps[id].error # None
    THEN [ok |-> TRUE, error |-> ps[id].error, err |-> <<>>]
    ELSE [ok |-> FALSE, error |-> None, err |-> MgrNotFound(id)]

\* PluginManager::get_plugin_error: Result<Option<String>, String>
MgrGetPluginError(ps, id) ==
    IF id \in DOMAIN ps THEN [ok |-> TRUE, error |-> ps[id].error, err |-> <<>>]
    ELSE [ok |-> FALSE, error |-> None, err |-> MgrNotFound(id)]

\* unregister_plugin, first block: `self.get_plugin_state(plugin_id)?`
MgrUnregisterState(ps, c) ==
    LET plugin_state == MgrGetPluginState(ps, c.id)
    IN IF ~plugin_state.ok THEN Return(c, Err(plugin_state.err))
       ELSE IF plugin_state.state = "Active"
            THEN [c EXCEPT !.pc = "deact_check", !.fn = "deactivate_plugin"]
       ELSE At(c, "unreg_remove")

\* unregister_plugin, second lock region: remove and publish under the lock
MgrUnregisterRemove(ps, hs, chs, c) ==
    IF c.id \in DOMAIN ps
    THEN LET payload == PluginEvent("plugin:unregistered", c.id)
             d == DispatchEvent(hs, chs, payload)
         IN [plugins |-> MapRemove(ps, c.id),
             call |-> Return(Published(c, payload, TRUE, d.result),
                             MgrAfterPublish(d.result, Ok))]
    ELSE [plugins |-> ps, call |-> Return(c, Err(MgrNotFound(c.id)))]

M_Unregister(t, id) ==
    /\ kind = "manager"
    /\ call[t].pc = "idle"
    /\ SetCall(t, MgrUnregisterState(plugins, NewCall("unregister_plugin", id, 0)))
    /\ UNCHANGED <<extVars, kind, features, plugins, next_inst, busVars, ctxVars>>

M_UnregRemove(t) ==
    /\ call[t].pc = "unreg_remove"
    /\ LET r == MgrUnregisterRemove(plugins, handlers, component_handlers, call[t])
       IN plugins' = r.plugins /\ SetCall(t, r.call)
    /\ UNCHANGED <<extVars, kind, features, next_inst, busVars, ctxVars>>

\* The read-only queries of PluginManager
MgrQueries == {"get_plugin_state", "get_plugin_error", "get_all_plugin_ids",
               "get_active_plugin_ids"}

\* The plugin_id arguments of a query ("": it takes none)
QueryIds(q) == IF q \in {"get_plugin_state", "get_plugin_error"} THEN PluginIds ELSE {""}

\* A query: what it returns, as the finished call
MgrQuery(ps, c) ==
    IF c.op = "get_plugin_state"
    THEN LET r == MgrGetPluginState(ps, c.id)
         IN IF r.ok THEN [Return(c, Ok) EXCEPT !.value = Some(r.state)]
            ELSE Return(c, Err(r.err))
    ELSE IF c.op = "get_plugin_error"
    THEN LET r == MgrGetPluginError(ps, c.id)
         IN IF r.ok THEN [Return(c, Ok) EXCEPT !.value = Some(r.error)]
            ELSE Return(c, Err(r.err))
    ELSE IF c.op = "get_all_plugin_ids"
    THEN [Return(c, Ok) EXCEPT !.value = Some(DOMAIN ps)]
    ELSE [Return(c, Ok) EXCEPT
             !.value = Some({id \in DOMAIN ps : ps[id].state = "Active"})]

M_Query(t, id, q) ==
    /\ kind = "manager"
    /\ call[t].pc = "idle"
    /\ SetCall(t, MgrQuery(plugins, NewCall(q, id, 0)))
    /\ UNCHANGED <<extVars, kind, features, plugins, next_inst, busVars, ctxVars>>

ConfigOps == {"get_plugin_config", "update_plugin_config"}

\* What Plugin::get_config / update_config may return
ConfigResults == {Ok, Err(<<"config failed">>)}

\* get_plugin_config / update_plugin_config, the lock region: look the plugin up
MgrConfigLookup(ps, c) ==
    IF c.id \in DOMAIN ps
    THEN [c EXCEPT !.pc = "cfg_callback", !.plugin_ref = ps[c.id].inst]
    ELSE Return(c, Err(MgrNotFound(c.id)))

M_Config(t, id, op) ==
    /\ kind = "manager"
    /\ call[t].pc = "idle"
    /\ SetCall(t, MgrConfigLookup(plugins, NewCall(op, id, 0)))
    /\ UNCHANGED <<extVars, kind, features, plugins, next_inst, busVars, ctxVars>>

\* plugin_instance.get_config() / update_config(config), outside the lock; its
\* result is the call's
M_ConfigCallback(t, r) ==
    /\ call[t].pc = "cfg_callback"
    /\ SetCall(t, Return(Invoked(call[t], call[t].op, r), r))
    /\ UNCHANGED <<extVars, kind, features, plugins, next_inst, busVars, ctxVars>>

-----------------------------------------------------------------------------
(* plugins/registry.rs: PluginRegistry *)

PluginAlreadyExists(id) == <<"PluginAlreadyExists", id>>
PluginNotFound(id) == <<"PluginNotFound", id>>
InitializationFailed(id, msg) == <<"InitializationFailed", id>> \o msg
OperationError(msg) == <<"OperationError">> \o msg

\* extract_dependencies: always Vec::new()
ExtractDependencies(plugin_id) == <<>>

RegistryEntry(plugin, state, error, dependencies) ==
    [inst |-> plugin, state |-> state, error |-> error, dependencies |-> dependencies]

\* serde_json::json!({"plugin_id": .., "descriptor": ..})
RegisteredEvent(plugin_id) ==
    EventPayload("plugin:registered",
                 [plugin_id |-> plugin_id, descriptor |-> [id |-> plugin_id]], None, None)

\* `let _ = self.event_bus.publish(..)`: after the lock is released, result dropped
RegPublish(hs, chs, c, payload) ==
    Published(c, payload, FALSE, DispatchEvent(hs, chs, payload).result)

\* Mutant: the existing-plugin check is missing
RegRegisterCheck_Missing(ps, c) == At(c, "reg_insert")

\* register_plugin, first block (read lock): the existing-plugin check
RegRegisterCheck(ps, c) ==
    IF c.id \in DOMAIN ps THEN Return(c, Err(PluginAlreadyExists(c.id)))
    ELSE At(c, "reg_insert")

\* register_plugin, second block (write lock): insert, then publish
RegRegisterInsert(ps, hs, chs, c) ==
    [plugins |-> MapPut(ps, c.id, RegistryEntry(c.plugin, "Registered", None,
                                                ExtractDependencies(c.id))),
     call |-> Return(RegPublish(hs, chs, c, RegisteredEvent(c.id)), Ok)]

R_Register(t, id) ==
    /\ kind = "registry"
    /\ call[t].pc = "idle"
    /\ next_inst <= MaxInst
    /\ LET c == RegRegisterCheck(plugins, NewCall("register_plugin", id, next_inst))
       IN /\ SetCall(t, c)
          /\ next_inst' = IF c.pc = "reg_insert" THEN next_inst + 1 ELSE next_inst
    /\ UNCHANGED <<extVars, kind, features, plugins, busVars, ctxVars>>

R_RegisterInsert(t) ==
    /\ call[t].pc = "reg_insert"
    /\ LET r == RegRegisterInsert(plugins, handlers, component_handlers, call[t])
       IN plugins' = r.plugins /\ SetCall(t, r.call)
    /\ UNCHANGED <<extVars, kind, features, next_inst, busVars, ctxVars>>

\* PluginRegistry::get_plugin_state
RegGetPluginState(ps, id) ==
    IF id \in DOMAIN ps THEN [ok |-> TRUE, state |-> ps[id].state, err |-> <<>>]
    ELSE [ok |-> FALSE, state |-> "", err |-> PluginNotFound(id)]

\* PluginRegistry::get_plugin_error
RegGetPluginError(ps, id) ==
    IF id \in DOMAIN ps THEN [ok |-> TRUE, error |-> ps[id].error, err |-> <<>>]
    ELSE [ok |-> FALSE, error |-> None, err |-> PluginNotFound(id)]

\* PluginRegistry::get_plugin_count
RegGetPluginCount(ps) == Cardinality(DOMAIN ps)

\* initialize_plugin, first block (read lock): the dependency list; the loop
\* over it initializes nothing, the list being empty
RegInitializeDeps(ps, c) ==
    IF c.id \in DOMAIN ps /\ ps[c.id].dependencies = <<>> THEN At(c, "rinit_state")
    ELSE Return(c, Err(PluginNotFound(c.id)))

\* Mutant: a plugin in state Error is initialized again
RegInitializeState_RetriesError(ps, c) ==
    LET plugin_state == RegGetPluginState(ps, c.id)
    IN IF ~plugin_state.ok THEN Return(c, Err(plugin_state.err))
       ELSE IF plugin_state.state \notin {"Registered", "Error"} THEN Return(c, Ok)
       ELSE At(c, "rinit_write")

\* initialize_plugin, `let plugin_state = self.get_plugin_state(plugin_id)?`
RegInitializeState(ps, c) ==
    LET plugin_state == RegGetPluginState(ps, c.id)
    IN IF ~plugin_state.ok THEN Return(c, Err(plugin_state.err))
       ELSE IF plugin_state.state # "Registered"
            THEN IF plugin_state.state = "Error"
                 THEN Return(c, Err(OperationError(
                          <<"Plugin '", c.id, "' is in error state">>)))
                 ELSE Return(c, Ok)
       ELSE At(c, "rinit_write")

\* initialize_plugin, the write-locked block with the callback inside, then the
\* event; r is what entry.plugin.initialize(context) returns
RegInitializeWrite(ps, hs, chs, c, r) ==
    IF c.id \in DOMAIN ps
    THEN LET c1 == Invoked([c EXCEPT !.plugin_ref = ps[c.id].inst], "initialize", r)
             stored == IF r.ok
                       THEN [ps EXCEPT ![c.id].state = "Initialized",
                                       ![c.id].error = None]
                       ELSE [ps EXCEPT ![c.id].state = "Error",
                                       ![c.id].error = Some(r.err)]
             payload == IF r.ok THEN PluginEvent("plugin:initialized", c.id)
                        ELSE PluginErrorEvent(c.id, r.err, "initialize")
             result == IF r.ok THEN Ok ELSE Err(InitializationFailed(c.id, r.err))
         IN [plugins |-> stored,
             call |-> Return(RegPublish(hs, chs, Wrote(c1, stored[c.id].state), payload),
                             result)]
    ELSE [plugins |-> ps, call |-> Return(c, Err(PluginNotFound(c.id)))]

R_Initialize(t, id) ==
    /\ kind = "registry"
    /\ call[t].pc = "idle"
    /\ SetCall(t, RegInitializeDeps(plugins, NewCall("initialize_plugin", id, 0)))
    /\ UNCHANGED <<extVars, kind, features, plugins, next_inst, busVars, ctxVars>>

R_InitState(t) ==
    /\ call[t].pc = "rinit_state"
    /\ SetCall(t, RegInitializeState(plugins, call[t]))
    /\ UNCHANGED <<extVars, kind, features, plugins, next_inst, busVars, ctxVars>>

R_InitWrite(t, r) ==
    /\ call[t].pc = "rinit_write"
    /\ LET w == RegInitializeWrite(plugins, handlers, component_handlers, call[t], r)
       IN plugins' = w.plugins /\ SetCall(t, w.call)
    /\ UNCHANGED <<extVars, kind, features, next_inst, busVars, ctxVars>>

\* unregister_plugin, first block (read lock)
RegUnregisterCheck(ps, c) ==
    IF c.id \notin DOMAIN ps THEN Return(c, Err(PluginNotFound(c.id)))
    ELSE At(c, "runreg_remove")

\* unregister_plugin, second block (write lock), then the event
RegUnregisterRemove(ps, hs, chs, c) ==
    [plugins |-> MapRemove(ps, c.id),
     call |-> Return(RegPublish(hs, chs, c, PluginEvent("plugin:unregistered", c.id)),
                     Ok)]

R_Unregister(t, id) ==
    /\ kind = "registry"
    /\ call[t].pc = "idle"
    /\ SetCall(t, RegUnregisterCheck(plugins, NewCall("unregister_plugin", id, 0)))
    /\ UNCHANGED <<extVars, kind, features, plugins, next_inst, busVars, ctxVars>>

R_UnregRemove(t) ==
    /\ call[t].pc = "runreg_remove"
    /\ LET r == RegUnregisterRemove(plugins, handlers, component_handlers, call[t])
       IN plugins' = r.plugins /\ SetCall(t, r.call)
    /\ UNCHANGED <<extVars, kind, features, next_inst, busVars, ctxVars>>

\* The read-only queries of PluginRegistry
RegQueries == {"get_plugin_state", "get_plugin_error", "get_plugin_count",
               "get_all_plugin_ids"}

RegQuery(ps, c) ==
    IF c.op = "get_plugin_state"
    THEN LET r == RegGetPluginState(ps, c.id)
         IN IF r.ok THEN [Return(c, Ok) EXCEPT !.value = Some(r.state)]
            ELSE Return(c, Err(r.err))
    ELSE IF c.op = "get_plugin_error"
    THEN LET r == RegGetPluginError(ps, c.id)
         IN IF r.ok THEN [Return(c, Ok) EXCEPT !.value = Some(r.error)]
            ELSE Return(c, Err(r.err))
    ELSE IF c.op = "get_plugin_count"
    THEN [Return(c, Ok) EXCEPT !.value = Some(RegGetPluginCount(ps))]
    ELSE [Return(c, Ok) EXCEPT !.value = Some(DOMAIN ps)]

R_Query(t, id, q) ==
    /\ kind = "registry"
    /\ call[t].pc = "idle"
    /\ SetCall(t, RegQuery(plugins, NewCall(q, id, 0)))
    /\ UNCHANGED <<extVars, kind, features, plugins, next_inst, busVars, ctxVars>>

\* get_plugin_config / update_plugin_config: the plugin's get_config /
\* update_config under the map's lock, its error wrapped in OperationError
RegConfig(ps, c, r) ==
    IF c.id \in DOMAIN ps
    THEN LET c1 == Invoked([c EXCEPT !.plugin_ref = ps[c.id].inst], c.op, r)
             what == IF c.op = "get_plugin_config" THEN "Failed to get plugin config: "
                     ELSE "Failed to update plugin config: "
         IN Return(c1, IF r.ok THEN Ok ELSE Err(OperationError(<<what>> \o r.err)))
    ELSE Return(c, Err(PluginNotFound(c.id)))

R_Config(t, id, op, r) ==
    /\ kind = "registry"
    /\ call[t].pc = "idle"
    /\ SetCall(t, RegConfig(plugins, NewCall(op, id, 0), r))
    /\ UNCHANGED <<extVars, kind, features, plugins, next_inst, busVars, ctxVars>>

-----------------------------------------------------------------------------
(* plugins/mod.rs: plugins::initialize and register_enabled_plugins *)

\* Mutant: every block is compiled in, whatever the features
EnabledBlocks_All(fs) == DOMAIN BuiltinPlugins

\* The cfg(feature = ..) blocks the build compiles in, as indexes of BuiltinPlugins
EnabledBlocks(fs) == {i \in DOMAIN BuiltinPlugins : BuiltinPlugins[i].feature \in fs}

\* plugins::get_enabled_plugins
GetEnabledPlugins(fs) == {BuiltinPlugins[i].id : i \in EnabledBlocks(fs)}

\* register_enabled_plugins: go to the next compiled-in block and run its
\* register_plugin up to the existing-plugin check; after the last block Ok(())
RegisterEnabledNext(ps, fs, c, inst) ==
    LET rest == {i \in EnabledBlocks(fs) : i > c.stage}
    IN IF rest = {} THEN [c EXCEPT !.pc = "idle", !.res = Ok]
       ELSE LET i == CHOOSE j \in rest : \A k \in rest : j <= k
            IN RegRegisterCheck(ps, [c EXCEPT !.stage = i, !.id = BuiltinPlugins[i].id,
                                              !.plugin = inst, !.fn = "register_plugin"])

\* plugins::initialize(event_bus): a new registry, then register_enabled_plugins
PluginsInitialize(t) ==
    /\ kind = "registry"
    /\ call[t].pc = "idle"
    /\ plugins = EmptyMap
    /\ next_inst <= MaxInst
    /\ LET c == RegisterEnabledNext(plugins, features,
                                    NewCall("plugins_initialize", "", 0), next_inst)
       IN /\ SetCall(t, c)
          /\ next_inst' = IF c.pc = "reg_insert" THEN next_inst + 1 ELSE next_inst
    /\ UNCHANGED <<extVars, kind, features, plugins, busVars, ctxVars>>

PluginsInitializeNext(t) ==
    /\ call[t].pc = "boot_next"
    /\ LET c == RegisterEnabledNext(plugins, features, call[t], next_inst)
       IN /\ SetCall(t, c)
          /\ next_inst' = IF c.pc = "reg_insert" THEN next_inst + 1 ELSE next_inst
    /\ UNCHANGED <<extVars, kind, features, plugins, busVars, ctxVars>>

-----------------------------------------------------------------------------
(* A subscriber of the lifecycle events: EventBus::subscribe("plugin:..", ..) *)

SubscribeLifecycle(t, event_type, fails) ==
    /\ call[t].pc = "idle"
    /\ next_handler <= MaxLifecycleHandlers
    /\ handlers' = SubscribePush(handlers, event_type, EventHandler(next_handler, fails))
    /\ next_handler' = next_handler + 1
    /\ SetCall(t, NewCall("subscribe", "", 0))
    /\ UNCHANGED <<extVars, component_handlers, dispatched, ctxVars, kind, features, plugins,
                   next_inst>>

-----------------------------------------------------------------------------
(* main.rs and lib.rs: what the process constructs when it starts *)

\* main(): Arc::new(EventBus::new()), PluginManager::new(bus),
\* plugins::initialize(bus) with its PluginRegistry::new(event_bus); each
\* object with the number of its construction and the bus it was given
MainConstructs ==
    <<[type |-> "EventBus", n |-> 1, event_bus |-> 1],
      [type |-> "PluginManager", n |-> 2, event_bus |-> 1],
      [type |-> "PluginRegistry", n |-> 3, event_bus |-> 1]>>

\* image_viewer_lib::run(), called at the end of main(): a new EventBus and a
\* new PluginManager on it, both put into AppState
RunConstructs ==
    <<[type |-> "EventBus", n |-> 4, event_bus |-> 4],
      [type |-> "PluginManager", n |-> 5, event_bus |-> 4]>>

Startup == MainConstructs \o RunConstructs

\* tauri's managed AppState { event_bus, plugin_manager, .. }
AppState == [event_bus |-> RunConstructs[1].n, plugin_manager |-> RunConstructs[2].n]

Constructed(type) == {Startup[i].n : i \in {k \in DOMAIN Startup : Startup[k].type = type}}

\* The object plugins::initialize registers the built-in plugins with
PluginHolder == MainConstructs[3]

-----------------------------------------------------------------------------
(* EventBus used from inside its own handlers (one thread)                 *)
(* dispatch_event holds the guard of `handlers` while it calls the global  *)
(* handlers and the guard of `component_handlers` while it calls the       *)
(* component handlers; std::sync::Mutex is not re-entrant.                 *)

\* What a closure does with the bus it captured, before it returns Ok
HandlerCalls == {"none", "subscribe", "subscribe_component", "unsubscribe_component",
                 "clear_all_handlers", "publish", "publish_to"}
ReentrantEvent == "E"
ReentrantComponent == "X"

\* Mutex::lock on a mutex the calling thread holds: it never returns; the
\* thread blocks for ever or panics, the standard library leaves open which.
RelockOutcomes == {"blocked", "panicked"}

NoReentry == [status |-> "idle", stack |-> <<>>, body |-> EmptyMap, waiting |-> ""]

\* One activation of dispatch_event: the payload's target and where the loop is
DispatchFrame(target, phase, idx) == [target |-> target, phase |-> phase, idx |-> idx]

\* The guard a frame holds: `handlers` in the first loop (event_bus.rs:121-131),
\* `component_handlers` in the second (135-147)
GuardOf(frame) == IF frame.phase = "global" THEN "handlers" ELSE "component_handlers"

HeldGuards(stack) == {GuardOf(stack[i]) : i \in DOMAIN stack}

TopFrame == reentry.stack[Len(reentry.stack)]

\* The Vec the top frame iterates over
FrameHandlers(frame) ==
    IF frame.phase = "global" THEN GlobalHandlersFor(handlers, ReentrantEvent)
    ELSE ComponentHandlersFor(component_handlers, frame.target[1], ReentrantEvent)

\* The call the closure being invoked makes
BodyOf(h) == IF h.hid \in DOMAIN reentry.body THEN reentry.body[h.hid] ELSE "none"

Invoking(b) ==
    /\ reentry.status = "running"
    /\ TopFrame.idx <= Len(FrameHandlers(TopFrame))
    /\ BodyOf(FrameHandlers(TopFrame)[TopFrame.idx]) = b

\* The closure returned: the loop moves to the next handler
NextHandler(stack) ==
    [stack EXCEPT ![Len(stack)].idx = stack[Len(stack)].idx + 1]

\* lock() on a guard this thread holds
Relock(guard, outcome) ==
    reentry' = [reentry EXCEPT !.status = outcome, !.waiting = guard]

\* bus.subscribe(event, closure) from the application, the closure calling b
SubscribeCalling(b) ==
    /\ reentry.status \in {"idle", "done"}
    /\ next_handler <= MaxHandlers
    /\ handlers' = SubscribePush(handlers, ReentrantEvent, EventHandler(next_handler, FALSE))
    /\ next_handler' = next_handler + 1
    /\ reentry' = [reentry EXCEPT !.body = MapPut(reentry.body, next_handler, b)]
    /\ UNCHANGED <<component_handlers, dispatched, ctxVars, plugVars, resource_manager,
                   image_collection, builtin_states>>

\* bus.subscribe_component(component, event, closure) from the application
SubscribeComponentCalling(b) ==
    /\ reentry.status \in {"idle", "done"}
    /\ next_handler <= MaxHandlers
    /\ component_handlers' = SubscribeComponentPush(component_handlers, ReentrantComponent,
                                 ReentrantEvent, EventHandler(next_handler, FALSE))
    /\ next_handler' = next_handler + 1
    /\ reentry' = [reentry EXCEPT !.body = MapPut(reentry.body, next_handler, b)]
    /\ UNCHANGED <<handlers, dispatched, ctxVars, plugVars, resource_manager,
                   image_collection, builtin_states>>

\* publish / publish_to from the application: dispatch_event takes `handlers`
BeginDispatch(target) ==
    /\ reentry.status \in {"idle", "done"}
    /\ reentry' = [reentry EXCEPT !.status = "running",
                                  !.stack = <<DispatchFrame(target, "global", 1)>>]
    /\ UNCHANGED <<busVars, ctxVars, plugVars, resource_manager, image_collection,
                   builtin_states>>

\* a closure that does not touch the bus
HandlerReturns ==
    /\ Invoking("none")
    /\ reentry' = [reentry EXCEPT !.stack = NextHandler(reentry.stack)]
    /\ UNCHANGED <<busVars, ctxVars, plugVars, resource_manager, image_collection,
                   builtin_states>>

\* a closure that calls subscribe on the bus (event_bus.rs:46)
HandlerSubscribes(outcome) ==
    /\ Invoking("subscribe")
    /\ IF "handlers" \in HeldGuards(reentry.stack)
       THEN /\ Relock("handlers", outcome)
            /\ UNCHANGED <<handlers, next_handler>>
       ELSE /\ next_handler <= MaxHandlers
            /\ handlers' = SubscribePush(handlers, ReentrantEvent,
                                         EventHandler(next_handler, FALSE))
            /\ next_handler' = next_handler + 1
            /\ reentry' = [reentry EXCEPT !.stack = NextHandler(reentry.stack)]
    /\ UNCHANGED <<component_handlers, dispatched, ctxVars, plugVars, resource_manager,
                   image_collection, builtin_states>>

\* a closure that calls subscribe_component on the bus (event_bus.rs:61)
HandlerSubscribesComponent(outcome) ==
    /\ Invoking("subscribe_component")
    /\ IF "component_handlers" \in HeldGuards(reentry.stack)
       THEN /\ Relock("component_handlers", outcome)
            /\ UNCHANGED <<component_handlers, next_handler>>
       ELSE /\ next_handler <= MaxHandlers
            /\ component_handlers' = SubscribeComponentPush(component_handlers,
                                         ReentrantComponent, ReentrantEvent,
                                         EventHandler(next_handler, FALSE))
            /\ next_handler' = next_handler + 1
            /\ reentry' = [reentry EXCEPT !.stack = NextHandler(reentry.stack)]
    /\ UNCHANGED <<handlers, dispatched, ctxVars, plugVars, resource_manager,
                   image_collection, builtin_states>>

\* a closure that calls unsubscribe_component on the bus (event_bus.rs:159)
HandlerUnsubscribesComponent(outcome) ==
    /\ Invoking("unsubscribe_component")
    /\ IF "component_handlers" \in HeldGuards(reentry.stack)
       THEN /\ Relock("component_handlers", outcome)
            /\ UNCHANGED component_handlers
       ELSE /\ component_handlers' = MapRemove(component_handlers, ReentrantComponent)
            /\ reentry' = [reentry EXCEPT !.stack = NextHandler(reentry.stack)]
    /\ UNCHANGED <<handlers, next_handler, dispatched, ctxVars, plugVars,
                   resource_manager, image_collection, builtin_states>>

\* a closure that calls clear_all_handlers on the bus: `handlers` is locked,
\* cleared and released (event_bus.rs:170-176) before `component_handlers`
\* is locked (178)
HandlerClearsAll(outcome) ==
    /\ Invoking("clear_all_handlers")
    /\ IF "handlers" \in HeldGuards(reentry.stack)
       THEN /\ Relock("handlers", outcome)
            /\ UNCHANGED <<handlers, component_handlers>>
       ELSE IF "component_handlers" \in HeldGuards(reentry.stack)
       THEN /\ handlers' = EmptyMap
            /\ Relock("component_handlers", outcome)
            /\ UNCHANGED component_handlers
       ELSE /\ handlers' = EmptyMap
            /\ component_handlers' = EmptyMap
            /\ reentry' = [reentry EXCEPT !.stack = NextHandler(reentry.stack)]
    /\ UNCHANGED <<next_handler, dispatched, ctxVars, plugVars, resource_manager,
                   image_collection, builtin_states>>

\* a closure that calls publish or publish_to on the bus: a nested
\* dispatch_event, which locks `handlers` first (event_bus.rs:121)
HandlerPublishes(outcome) ==
    /\ \/ Invoking("publish")
       \/ Invoking("publish_to")
    /\ IF "handlers" \in HeldGuards(reentry.stack)
       THEN Relock("handlers", outcome)
       ELSE reentry' = [reentry EXCEPT !.stack =
                Append(reentry.stack,
                       DispatchFrame(IF Invoking("publish") THEN None
                                     ELSE Some(ReentrantComponent), "global", 1))]
    /\ UNCHANGED <<busVars, ctxVars, plugVars, resource_manager, image_collection,
                   builtin_states>>

\* the first loop is over and the payload has a target: the guard of
\* `handlers` is dropped and `component_handlers` is locked (event_bus.rs:134-135)
EnterComponentPhase(outcome) ==
    /\ reentry.status = "running"
    /\ TopFrame.phase = "global"
    /\ TopFrame.idx > Len(FrameHandlers(TopFrame))
    /\ TopFrame.target # None
    /\ LET below == SubSeq(reentry.stack, 1, Len(reentry.stack) - 1)
       IN IF "component_handlers" \in HeldGuards(below)
          THEN Relock("component_handlers", outcome)
          ELSE reentry' = [reentry EXCEPT !.stack =
                   below \o <<DispatchFrame(TopFrame.target, "component", 1)>>]
    /\ UNCHANGED <<busVars, ctxVars, plugVars, resource_manager, image_collection,
                   builtin_states>>

\* dispatch_event returns: to the application, or into the closure that
\* published, which then returns to the loop that invoked it
EndDispatch ==
    /\ reentry.status = "running"
    /\ TopFrame.idx > Len(FrameHandlers(TopFrame))
    /\ TopFrame.phase = "global" => TopFrame.target = None
    /\ LET below == SubSeq(reentry.stack, 1, Len(reentry.stack) - 1)
       IN reentry' = IF below = <<>>
                     THEN [reentry EXCEPT !.status = "done", !.stack = <<>>]
                     ELSE [reentry EXCEPT !.stack = NextHandler(below)]
    /\ UNCHANGED <<busVars, ctxVars, plugVars, resource_manager, image_collection,
                   builtin_states>>

NextReentrant ==
    \/ \E b \in HandlerCalls : SubscribeCalling(b)
    \/ \E b \in HandlerCalls : SubscribeComponentCalling(b)
    \/ \E target \in {None, Some(ReentrantComponent)} : BeginDispatch(target)
    \/ HandlerReturns
    \/ \E o \in RelockOutcomes : HandlerSubscribes(o)
    \/ \E o \in RelockOutcomes : HandlerSubscribesComponent(o)
    \/ \E o \in RelockOutcomes : HandlerUnsubscribesComponent(o)
    \/ \E o \in RelockOutcomes : HandlerClearsAll(o)
    \/ \E o \in RelockOutcomes : HandlerPublishes(o)
    \/ \E o \in RelockOutcomes : EnterComponentPhase(o)
    \/ EndDispatch


-----------------------------------------------------------------------------
(* ResourceManager (core/resource_manager.rs)                               *)
(* Paths are Strings, modelled character by character, so that starts_with, *)
(* ends_with and the byte-wise order of sort are what they are in the code. *)

DirA == <<"/", "a">>
DirB == DirA \o <<"/", "b">>
FileX == DirA \o <<"/", "x", ".", "p", "n", "g">>
FileY == DirB \o <<"/", "y", ".", "P", "N", "G">>
FileN == DirA \o <<"/", "n", ".", "t", "x", "t">>
MissingPath == <<"/", "z">>

Dirs == {DirA, DirB}
AllFiles == {FileX, FileY, FileN}
\* The files that come and go between calls
VolatileFiles == {FileX}

\* u8 value of a character (the order of String::cmp)
CharCode(ch) ==
    CASE ch = "." -> 46 [] ch = "/" -> 47
      [] ch = "G" -> 71 [] ch = "N" -> 78 [] ch = "P" -> 80
      [] ch = "a" -> 97 [] ch = "b" -> 98 [] ch = "g" -> 103 [] ch = "n" -> 110
      [] ch = "p" -> 112 [] ch = "t" -> 116 [] ch = "x" -> 120 [] ch = "y" -> 121
      [] ch = "z" -> 122

\* char::to_lowercase on ASCII
LowerChar(ch) ==
    CASE ch = "G" -> "g" [] ch = "N" -> "n" [] ch = "P" -> "p" [] OTHER -> ch

ToLowercase(str) == [i \in DOMAIN str |-> LowerChar(str[i])]

StartsWith(str, prefix) ==
    /\ Len(prefix) <= Len(str)
    /\ SubSeq(str, 1, Len(prefix)) = prefix

EndsWith(str, suffix) ==
    /\ Len(suffix) <= Len(str)
    /\ SubSeq(str, Len(str) - Len(suffix) + 1, Len(str)) = suffix

\* String's Ord: lexicographic on bytes, a proper prefix first
RECURSIVE StrLess(_, _)
StrLess(a, b) ==
    IF b = <<>> THEN FALSE
    ELSE IF a = <<>> THEN TRUE
    ELSE IF CharCode(a[1]) # CharCode(b[1]) THEN CharCode(a[1]) < CharCode(b[1])
    ELSE StrLess(Tail(a), Tail(b))

ImageExtensions ==
    {<<".", "j", "p", "g">>, <<".", "j", "p", "e", "g">>, <<".", "p", "n", "g">>,
     <<".", "g", "i", "f">>, <<".", "b", "m", "p">>, <<".", "w", "e", "b", "p">>}

\* is_image_file
IsImageFile(file_name) ==
    \E ext \in ImageExtensions : EndsWith(ToLowercase(file_name), ext)

\* Position of the last "/" of a path
LastSlash(path) ==
    CHOOSE i \in DOMAIN path :
        path[i] = "/" /\ \A j \in DOMAIN path : j > i => path[j] # "/"

\* Path::file_name
FileNameOf(path) == SubSeq(path, LastSlash(path) + 1, Len(path))

\* Path::parent
ParentOf(path) == SubSeq(path, 1, LastSlash(path) - 1)

PathExists(files, path) == path \in Dirs \cup files

\* Vec<String>::sort (stable, by String::cmp): insertion into a sorted prefix
RECURSIVE InsertSorted(_, _)
InsertSorted(sorted, x) ==
    IF sorted = <<>> THEN <<x>>
    ELSE IF StrLess(x, sorted[1]) THEN <<x>> \o sorted
    ELSE <<sorted[1]>> \o InsertSorted(Tail(sorted), x)

RECURSIVE SortPaths(_)
SortPaths(paths) ==
    IF paths = <<>> THEN <<>>
    ELSE InsertSorted(SortPaths(SubSeq(paths, 1, Len(paths) - 1)), paths[Len(paths)])

\* Mutant: dedup drops nothing
Dedup_KeepsAll(paths) == paths

\* Vec::dedup: of each run of equal neighbours the first stays
RECURSIVE Dedup(_)
Dedup(paths) ==
    IF Len(paths) <= 1 THEN paths
    ELSE IF paths[1] = paths[2] THEN Dedup(Tail(paths))
    ELSE <<paths[1]>> \o Dedup(Tail(paths))

\* fs::read_dir yields the entries in an order the platform chooses; the runs
\* take them in ascending or in descending order of their names.
ReadDirOrders == {"ascending", "descending"}

Reverse(seq) == [i \in DOMAIN seq |-> seq[Len(seq) + 1 - i]]

RECURSIVE SetToSortedSeq(_)
SetToSortedSeq(set) ==
    IF set = {} THEN <<>>
    ELSE LET least == CHOOSE x \in set : \A y \in set \ {x} : StrLess(x, y)
         IN <<least>> \o SetToSortedSeq(set \ {least})

\* fs::read_dir(dir)
ReadDir(files, dir, order) ==
    LET entries == SetToSortedSeq({p \in Dirs \cup files : ParentOf(p) = dir})
    IN IF order = "ascending" THEN entries ELSE Reverse(entries)

Excluded(path, exclude_paths) ==
    \E i \in DOMAIN exclude_paths : StartsWith(path, exclude_paths[i])

\* scan_directory: the paths it pushes to result
RECURSIVE ScanDirectory(_, _, _, _)
RECURSIVE ScanEntries(_, _, _, _)
ScanDirectory(files, dir, exclude_paths, order) ==
    IF Excluded(dir, exclude_paths) THEN <<>>
    ELSE ScanEntries(files, ReadDir(files, dir, order), exclude_paths, order)

\* scan_directory, `for entry in entries`
ScanEntries(files, entries, exclude_paths, order) ==
    IF entries = <<>> THEN <<>>
    ELSE LET path == entries[1]
             rest == ScanEntries(files, Tail(entries), exclude_paths, order)
         IN IF Excluded(path, exclude_paths) THEN rest
            ELSE IF path \in Dirs
                 THEN ScanDirectory(files, path, exclude_paths, order) \o rest
            ELSE IF IsImageFile(FileNameOf(path)) THEN <<path>> \o rest
            ELSE rest

PathDoesNotExist(path) == <<"Path does not exist: ">> \o path

\* resolve_path
ResolvePath(files, path, exclude_paths, order) ==
    IF ~PathExists(files, path)
    THEN [ok |-> FALSE, err |-> PathDoesNotExist(path), paths |-> <<>>]
    ELSE IF path \in files
    THEN [ok |-> TRUE, err |-> <<>>,
          paths |-> IF IsImageFile(FileNameOf(path)) THEN <<path>> ELSE <<>>]
    ELSE [ok |-> TRUE, err |-> <<>>,
          paths |-> ScanDirectory(files, path, exclude_paths, order)]

\* internal_resolve_resources, `for include_path in &config.filters.include`
\* with `?`: the paths collected, the include paths resolved, the first error
RECURSIVE ResolveIncludes(_, _, _, _, _)
ResolveIncludes(files, include, exclude_paths, order, acc) ==
    IF include = <<>> THEN acc
    ELSE LET r == ResolvePath(files, include[1], exclude_paths, order)
             scanned == Append(acc.scanned, include[1])
         IN IF ~r.ok THEN [ok |-> FALSE, err |-> r.err, paths |-> acc.paths,
                           scanned |-> scanned]
            ELSE ResolveIncludes(files, Tail(include), exclude_paths, order,
                                 [ok |-> TRUE, err |-> <<>>,
                                  paths |-> acc.paths \o r.paths, scanned |-> scanned])

ResourceFilter(include, exclude) == [include |-> include, exclude |-> exclude]
ResourceConfig(id, filters) == [id |-> id, filters |-> filters]
PathResolutionResult(paths) == [paths |-> paths, count |-> Len(paths)]

ConfigIds == {"c1", "c2"}
\* The filters the runs call with: one directory, overlapping directories, a
\* repeated file, an excluded sub-directory, a path that does not exist after
\* one that does, no include path at all.
Filters ==
    {ResourceFilter(<<DirA>>, <<>>),
     ResourceFilter(<<DirB, DirA>>, <<>>),
     ResourceFilter(<<FileX, FileX>>, <<>>),
     ResourceFilter(<<DirA>>, <<DirB>>),
     ResourceFilter(<<DirB, MissingPath>>, <<>>),
     ResourceFilter(<<>>, <<>>)}

\* The record of the last call on the ResourceManager
ResourceCall(op, config, result, value, scanned, before) ==
    [op |-> op, config |-> config, result |-> result, value |-> value,
     scanned |-> scanned, before |-> before]

NoResourceCall ==
    ResourceCall("none", ResourceConfig("", ResourceFilter(<<>>, <<>>)), Ok, None, <<>>,
                 EmptyMap)

\* ResourceManager::new, on a disk with every file
NoResourceManager ==
    [config_cache |-> EmptyMap, path_cache |-> EmptyMap, files |-> AllFiles,
     last |-> NoResourceCall]

\* Mutant: clear_config_cache drops every id's list
ClearConfigCachePaths_All(path_cache, config_id) == EmptyMap

\* clear_config_cache: cache.remove(config_id)
ClearConfigCachePaths(path_cache, config_id) == MapRemove(path_cache, config_id)

\* ResourceManager::internal_resolve_resources
InternalResolveResources(config, order) ==
    LET rm == resource_manager
        cc == MapPut(rm.config_cache, config.id, config)
    IN /\ IF config.id \in DOMAIN rm.path_cache
          THEN resource_manager' =
                  [rm EXCEPT !.config_cache = cc,
                             !.last = ResourceCall("internal_resolve_resources", config, Ok,
                                          Some(PathResolutionResult(rm.path_cache[config.id])),
                                          <<>>, rm.path_cache)]
          ELSE LET r == ResolveIncludes(rm.files, config.filters.include,
                                        config.filters.exclude, order,
                                        [ok |-> TRUE, err |-> <<>>, paths |-> <<>>,
                                         scanned |-> <<>>])
                   all_paths == Dedup(SortPaths(r.paths))
               IN IF ~r.ok
                  THEN resource_manager' =
                          [rm EXCEPT !.config_cache = cc,
                                     !.last = ResourceCall("internal_resolve_resources",
                                                  config, Err(r.err), None, r.scanned,
                                                  rm.path_cache)]
                  ELSE resource_manager' =
                          [rm EXCEPT !.config_cache = cc,
                                     !.path_cache = MapPut(rm.path_cache, config.id,
                                                           all_paths),
                                     !.last = ResourceCall("internal_resolve_resources",
                                                  config, Ok,
                                                  Some(PathResolutionResult(all_paths)),
                                                  r.scanned, rm.path_cache)]
       /\ UNCHANGED <<busVars, ctxVars, plugVars, reentry, image_collection,
                      builtin_states>>

\* ResourceManager::clear_cache
ClearCache ==
    /\ resource_manager' =
          [resource_manager EXCEPT
              !.path_cache = EmptyMap,
              !.last = ResourceCall("clear_cache", NoResourceCall.config, Ok, None, <<>>,
                                    resource_manager.path_cache)]
    /\ UNCHANGED <<busVars, ctxVars, plugVars, reentry, image_collection, builtin_states>>

\* ResourceManager::clear_config_cache
ClearConfigCache(config_id) ==
    /\ resource_manager' =
          [resource_manager EXCEPT
              !.path_cache = ClearConfigCachePaths(resource_manager.path_cache, config_id),
              !.last = ResourceCall("clear_config_cache",
                                    ResourceConfig(config_id, ResourceFilter(<<>>, <<>>)),
                                    Ok, None, <<>>, resource_manager.path_cache)]
    /\ UNCHANGED <<busVars, ctxVars, plugVars, reentry, image_collection, builtin_states>>

\* The disk changes between two calls: a file is created or removed
ChangeFiles(file) ==
    /\ resource_manager' =
          [resource_manager EXCEPT
              !.files = IF file \in resource_manager.files
                        THEN resource_manager.files \ {file}
                        ELSE resource_manager.files \cup {file},
              !.last = NoResourceCall]
    /\ UNCHANGED <<busVars, ctxVars, plugVars, reentry, image_collection, builtin_states>>

NextResources ==
    \/ \E id \in ConfigIds, f \in Filters, order \in ReadDirOrders :
           InternalResolveResources(ResourceConfig(id, f), order)
    \/ ClearCache
    \/ \E id \in ConfigIds : ClearConfigCache(id)
    \/ \E file \in VolatileFiles : ChangeFiles(file)


-----------------------------------------------------------------------------
(* ImageCollection (core/image_collection.rs) *)

MaxImages == 3

ImageMetadata(path, file_name, file_size) ==
    [path |-> path, file_name |-> file_name, file_size |-> file_size]

\* The entries the collections are built from: two of one size, one a jpg twice
AllMetadata ==
    {ImageMetadata("/p/image1.jpg", <<"image1", ".jpg">>, 1024),
     ImageMetadata("/p/image2.png", <<"image2", ".png">>, 2048),
     ImageMetadata("/p/image3.jpg", <<"image3", ".jpg">>, 1024)}

\* Vec<T> of at most n elements
RECURSIVE SeqsUpTo(_, _)
SeqsUpTo(S, n) ==
    IF n = 0 THEN {<<>>}
    ELSE LET shorter == SeqsUpTo(S, n - 1)
         IN shorter \cup {Append(q, x) : q \in {r \in shorter : Len(r) = n - 1}, x \in S}

\* ImageCollection::new: the list and a cache of None, one slot per entry
NewImageCollection(metadata_list) ==
    [metadata_list |-> metadata_list,
     image_cache |-> [i \in DOMAIN metadata_list |-> None]]

\* The closures passed to filter
Predicates == {"is_jpg", "is_large", "any", "never"}

\* predicate(&metadata)
Satisfies(predicate, meta) ==
    CASE predicate = "is_jpg" -> meta.file_name[Len(meta.file_name)] = ".jpg"
      [] predicate = "is_large" -> meta.file_size > 1024
      [] predicate = "any" -> TRUE
      [] predicate = "never" -> FALSE

\* The closures passed to sort
Comparisons == {"by_size", "by_size_descending", "by_path"}

PathRank(meta) ==
    CASE meta.path = "/p/image1.jpg" -> 1
      [] meta.path = "/p/image2.png" -> 2
      [] meta.path = "/p/image3.jpg" -> 3

\* compare_fn(a, b) = Ordering::Less
Less(compare_fn, a, b) ==
    CASE compare_fn = "by_size" -> a.file_size < b.file_size
      [] compare_fn = "by_size_descending" -> a.file_size > b.file_size
      [] compare_fn = "by_path" -> PathRank(a) < PathRank(b)

\* iter().cloned().filter(predicate).collect()
RECURSIVE FilterList(_, _)
FilterList(metadata_list, predicate) ==
    IF metadata_list = <<>> THEN <<>>
    ELSE IF Satisfies(predicate, metadata_list[1])
         THEN <<metadata_list[1]>> \o FilterList(Tail(metadata_list), predicate)
         ELSE FilterList(Tail(metadata_list), predicate)

\* sort_by is stable: an entry goes behind the entries it is not less than
RECURSIVE InsertBy(_, _, _)
InsertBy(sorted, x, compare_fn) ==
    IF sorted = <<>> THEN <<x>>
    ELSE IF Less(compare_fn, x, sorted[1]) THEN <<x>> \o sorted
    ELSE <<sorted[1]>> \o InsertBy(Tail(sorted), x, compare_fn)

\* Mutant: of the entries that compare equal only the first is kept
RECURSIVE SortBy_DropsEqual(_, _)
SortBy_DropsEqual(metadata_list, compare_fn) ==
    IF metadata_list = <<>> THEN <<>>
    ELSE LET init == SortBy_DropsEqual(SubSeq(metadata_list, 1, Len(metadata_list) - 1),
                                       compare_fn)
             x == metadata_list[Len(metadata_list)]
         IN IF \E i \in DOMAIN init :
                  ~Less(compare_fn, x, init[i]) /\ ~Less(compare_fn, init[i], x)
            THEN init
            ELSE InsertBy(init, x, compare_fn)

\* sorted_metadata.sort_by(|a, b| compare_fn(a, b))
RECURSIVE SortBy(_, _)
SortBy(metadata_list, compare_fn) ==
    IF metadata_list = <<>> THEN <<>>
    ELSE InsertBy(SortBy(SubSeq(metadata_list, 1, Len(metadata_list) - 1), compare_fn),
                  metadata_list[Len(metadata_list)], compare_fn)

CollectionCall(op, arg, before, result) ==
    [op |-> op, arg |-> arg, before |-> before, result |-> result]

\* A collection nothing was derived from yet
ImageCollectionState(collection) ==
    [collection |-> collection,
     last |-> CollectionCall("none", "", collection, None)]

NoImageCollection == ImageCollectionState(NewImageCollection(<<>>))

\* ImageCollection::filter
Filter(predicate) ==
    LET c == image_collection.collection
    IN /\ image_collection' =
             [image_collection EXCEPT
                 !.last = CollectionCall("filter", predicate, c,
                              Some(NewImageCollection(
                                       FilterList(c.metadata_list, predicate))))]
       /\ UNCHANGED <<busVars, ctxVars, plugVars, reentry, resource_manager,
                      builtin_states>>

\* ImageCollection::sort
Sort(compare_fn) ==
    LET c == image_collection.collection
    IN /\ image_collection' =
             [image_collection EXCEPT
                 !.last = CollectionCall("sort", compare_fn, c,
                              Some(NewImageCollection(
                                       SortBy(c.metadata_list, compare_fn))))]
       /\ UNCHANGED <<busVars, ctxVars, plugVars, reentry, resource_manager,
                      builtin_states>>

\* ImageCollection::load_image_at for a file that can be read: the slot of the
\* cache is filled
LoadImageAt(index) ==
    LET c == image_collection.collection
    IN /\ index \in DOMAIN c.metadata_list
       /\ image_collection' =
             [image_collection EXCEPT
                 !.collection.image_cache[index] = Some(c.metadata_list[index]),
                 !.last = CollectionCall("load_image_at", index, c, None)]
       /\ UNCHANGED <<busVars, ctxVars, plugVars, reentry, resource_manager,
                      builtin_states>>

\* ImageCollection::clear_cache
ClearImageCache ==
    LET c == image_collection.collection
    IN /\ image_collection' =
             [image_collection EXCEPT
                 !.collection.image_cache = [i \in DOMAIN c.metadata_list |-> None],
                 !.last = CollectionCall("clear_cache", "", c, None)]
       /\ UNCHANGED <<busVars, ctxVars, plugVars, reentry, resource_manager,
                      builtin_states>>

NextCollection ==
    \/ \E predicate \in Predicates : Filter(predicate)
    \/ \E compare_fn \in Comparisons : Sort(compare_fn)
    \/ \E index \in 1..MaxImages : LoadImageAt(index)
    \/ ClearImageCache


-----------------------------------------------------------------------------
(* The built-in plugins' own state (plugins/allviewer/mod.rs,                *)
(* plugins/findme/mod.rs)                                                   *)
(* A u64 is kept as its upper and lower 32 bits, so that `as u32` is the    *)
(* truncation it is in the code.                                            *)

U64(hi, lo) == [hi |-> hi, lo |-> lo]
\* `x as u32`
AsU32(x) == x.lo

\* serde_json::Value
JsonValue(t, u, str, b) == [t |-> t, u |-> u, s |-> str, b |-> b]
JsonU64(x) == JsonValue("u64", x, "", FALSE)
JsonString(str) == JsonValue("string", U64(0, 0), str, FALSE)
JsonBool(b) == JsonValue("bool", U64(0, 0), "", b)
\* json!({..}) with the given keys
JsonObject(keys, value) == [k \in keys |-> value[k]]

\* Value::get(key)
JsonGet(obj, key) == IF key \in DOMAIN obj THEN Some(obj[key]) ELSE None
\* .and_then(|v| v.as_u64())
AndThenAsU64(opt) == IF opt # None /\ opt[1].t = "u64" THEN Some(opt[1].u) ELSE None
\* .and_then(|v| v.as_str())
AndThenAsStr(opt) == IF opt # None /\ opt[1].t = "string" THEN Some(opt[1].s) ELSE None
\* .and_then(|v| v.as_bool())
AndThenAsBool(opt) == IF opt # None /\ opt[1].t = "bool" THEN Some(opt[1].b) ELSE None

ThumbnailMin == 50
ThumbnailMax == 300
ThumbnailDefault == 150

\* u32::clamp(50, 300)
Clamp(size) ==
    IF size < ThumbnailMin THEN ThumbnailMin
    ELSE IF size > ThumbnailMax THEN ThumbnailMax
    ELSE size

\* The sizes the runs pass: around both ends of the range, and one above u32
SizeInputs == {U64(0, 0), U64(0, 49), U64(0, 50), U64(0, 300), U64(0, 301), U64(1, 100)}
ViewModeInputs == {"list", "mosaic"}
ValidDifficulties == {"easy", "medium", "hard"}
DifficultyInputs == ValidDifficulties \cup {"impossible", ""}
TimeLimitDefault == 60
TimeLimitInputs == {U64(0, 30)}

\* AllViewerPlugin::new
NewAllViewerState ==
    [view_mode |-> "grid", thumbnail_size |-> ThumbnailDefault, show_labels |-> TRUE,
     current_directory |-> None]

\* FindMePlugin::new
NewFindMeState ==
    [difficulty |-> "easy", score |-> 0, time_limit |-> TimeLimitDefault,
     game_state |-> "ready"]

\* The record of the last call on a built-in plugin
BuiltinCall(plugin, op, arg, result, before) ==
    [plugin |-> plugin, op |-> op, arg |-> arg, result |-> result, before |-> before]

NoBuiltinCall == BuiltinCall("", "none", EmptyMap, Ok, EmptyMap)

NewPluginState ==
    [allviewer |-> NewAllViewerState, findme |-> NewFindMeState, last |-> NoBuiltinCall]

\* The objects passed to the "set_thumbnail_size" handler
SizeArgs ==
    {JsonObject({"size"}, [k \in {"size"} |-> JsonU64(x)]) : x \in SizeInputs}
    \cup {JsonObject({"size"}, [k \in {"size"} |-> JsonString("big")]), EmptyMap}

\* The objects passed to AllViewerPlugin::update_config
AllViewerConfigs ==
    {JsonObject({"thumbnailSize"}, [k \in {"thumbnailSize"} |-> JsonU64(x)]) :
        x \in SizeInputs}
    \cup {JsonObject({"viewMode"}, [k \in {"viewMode"} |-> JsonString(m)]) :
             m \in ViewModeInputs}
    \cup {JsonObject({"thumbnailSize", "showLabels"},
                     [k \in {"thumbnailSize", "showLabels"} |->
                         IF k = "showLabels" THEN JsonBool(FALSE) ELSE JsonString("big")]),
          EmptyMap}

\* The objects passed to the "set_difficulty" handler
DifficultyArgs ==
    {JsonObject({"difficulty"}, [k \in {"difficulty"} |-> JsonString(d)]) :
        d \in DifficultyInputs}
    \cup {JsonObject({"difficulty"}, [k \in {"difficulty"} |-> JsonBool(TRUE)]), EmptyMap}

\* The objects passed to FindMePlugin::update_config
FindMeConfigs ==
    {JsonObject({"difficulty"}, [k \in {"difficulty"} |-> JsonString(d)]) :
        d \in DifficultyInputs}
    \cup {JsonObject({"timeLimit"}, [k \in {"timeLimit"} |-> JsonU64(x)]) :
             x \in TimeLimitInputs}
    \cup {EmptyMap}

InvalidDifficulty(difficulty) == <<"Invalid difficulty: ", difficulty>>

\* The plugin's state after a call, with the record of the call
AllViewerCalled(op, arg, result, state) ==
    [builtin_states EXCEPT
        !.allviewer = state,
        !.last = BuiltinCall("allviewer", op, arg, result, builtin_states.allviewer)]

FindMeCalled(op, arg, result, state) ==
    [builtin_states EXCEPT
        !.findme = state,
        !.last = BuiltinCall("findme", op, arg, result, builtin_states.findme)]

\* The arguments of the two private setters, as the record of the call keeps them
SizeArg(size) == JsonObject({"size"}, [k \in {"size"} |-> JsonU64(U64(0, size))])
DifficultyArg(difficulty) ==
    JsonObject({"difficulty"}, [k \in {"difficulty"} |-> JsonString(difficulty)])

\* AllViewerPlugin::set_thumbnail_size(size: u32)
SetThumbnailSize(size) ==
    /\ builtin_states' =
          AllViewerCalled("set_thumbnail_size", SizeArg(size), Ok,
              [builtin_states.allviewer EXCEPT !.thumbnail_size = Clamp(size)])
    /\ UNCHANGED <<busVars, ctxVars, plugVars, reentry, resource_manager,
                   image_collection>>

\* the "set_thumbnail_size" API handler
ApiSetThumbnailSize(args) ==
    LET size == AndThenAsU64(JsonGet(args, "size"))
    IN /\ builtin_states' =
             IF size # None
             THEN AllViewerCalled("api:set_thumbnail_size", args, Ok,
                      [builtin_states.allviewer EXCEPT
                          !.thumbnail_size = AsU32(size[1])])
             ELSE AllViewerCalled("api:set_thumbnail_size", args,
                      Err(<<"Invalid size parameter">>), builtin_states.allviewer)
       /\ UNCHANGED <<busVars, ctxVars, plugVars, reentry, resource_manager,
                      image_collection>>

\* AllViewerPlugin::update_config
AllViewerUpdateConfig(config) ==
    LET view_mode == AndThenAsStr(JsonGet(config, "viewMode"))
        thumbnail_size == AndThenAsU64(JsonGet(config, "thumbnailSize"))
        show_labels == AndThenAsBool(JsonGet(config, "showLabels"))
        current_dir == AndThenAsStr(JsonGet(config, "currentDirectory"))
        st == builtin_states.allviewer
    IN /\ builtin_states' =
             AllViewerCalled("update_config", config, Ok,
                 [view_mode |-> IF view_mode # None THEN view_mode[1] ELSE st.view_mode,
                  thumbnail_size |-> IF thumbnail_size # None
                                     THEN AsU32(thumbnail_size[1])
                                     ELSE st.thumbnail_size,
                  show_labels |-> IF show_labels # None THEN show_labels[1]
                                  ELSE st.show_labels,
                  current_directory |-> IF current_dir # None THEN Some(current_dir[1])
                                        ELSE st.current_directory])
       /\ UNCHANGED <<busVars, ctxVars, plugVars, reentry, resource_manager,
                      image_collection>>

\* FindMePlugin::set_difficulty
SetDifficulty(difficulty) ==
    /\ builtin_states' =
          IF difficulty \in ValidDifficulties
          THEN FindMeCalled("set_difficulty", DifficultyArg(difficulty), Ok,
                   [builtin_states.findme EXCEPT !.difficulty = difficulty])
          ELSE FindMeCalled("set_difficulty", DifficultyArg(difficulty),
                   Err(InvalidDifficulty(difficulty)), builtin_states.findme)
    /\ UNCHANGED <<busVars, ctxVars, plugVars, reentry, resource_manager,
                   image_collection>>

\* the "set_difficulty" API handler
ApiSetDifficulty(args) ==
    LET difficulty == AndThenAsStr(JsonGet(args, "difficulty"))
    IN /\ builtin_states' =
             IF difficulty = None
             THEN FindMeCalled("api:set_difficulty", args,
                      Err(<<"No difficulty provided">>), builtin_states.findme)
             ELSE IF difficulty[1] \in ValidDifficulties
             THEN FindMeCalled("api:set_difficulty", args, Ok,
                      [builtin_states.findme EXCEPT !.difficulty = difficulty[1]])
             ELSE FindMeCalled("api:set_difficulty", args,
                      Err(InvalidDifficulty(difficulty[1])), builtin_states.findme)
       /\ UNCHANGED <<busVars, ctxVars, plugVars, reentry, resource_manager,
                      image_collection>>

\* FindMePlugin::update_config
FindMeUpdateConfig(config) ==
    LET difficulty == AndThenAsStr(JsonGet(config, "difficulty"))
        time_limit == AndThenAsU64(JsonGet(config, "timeLimit"))
        st == builtin_states.findme
    IN /\ builtin_states' =
             FindMeCalled("update_config", config, Ok,
                 [st EXCEPT !.difficulty = IF difficulty # None THEN difficulty[1] ELSE @,
                            !.time_limit = IF time_limit # None THEN AsU32(time_limit[1])
                                           ELSE @])
       /\ UNCHANGED <<busVars, ctxVars, plugVars, reentry, resource_manager,
                      image_collection>>

NextBuiltin ==
    \/ \E size \in {AsU32(x) : x \in SizeInputs} : SetThumbnailSize(size)
    \/ \E args \in SizeArgs : ApiSetThumbnailSize(args)
    \/ \E config \in AllViewerConfigs : AllViewerUpdateConfig(config)
    \/ \E difficulty \in DifficultyInputs : SetDifficulty(difficulty)
    \/ \E args \in DifficultyArgs : ApiSetDifficulty(args)
    \/ \E config \in FindMeConfigs : FindMeUpdateConfig(config)


-----------------------------------------------------------------------------
(* Specifications *)

InitBus ==
    /\ handlers = EmptyMap
    /\ component_handlers = EmptyMap
    /\ next_handler = 1
    /\ dispatched = NoDispatch

InitCtx ==
    /\ shared_data = EmptyMap
    /\ ctx_last = NoCtxCall
    /\ set_log = <<>>

NextBus ==
    \/ \E e \in EventTypes, f \in BOOLEAN : Subscribe(e, f)
    \/ \E c \in Components, e \in EventTypes, f \in BOOLEAN : SubscribeComponent(c, e, f)
    \/ \E e \in EventTypes, d \in DataValues : Publish(e, d)
    \/ \E s \in Sources, e \in EventTypes, d \in DataValues : PublishFrom(s, e, d)
    \/ \E c \in Components, e \in EventTypes, d \in DataValues : PublishTo(c, e, d)
    \/ \E s \in Sources, c \in Components, e \in EventTypes, d \in DataValues :
           PublishBetween(s, c, e, d)
    \/ \E c \in Components : UnsubscribeComponent(c)
    \/ ClearAllHandlers

CtxCalls(Ks, Ts, Vs) ==
    \/ \E k \in Ks, t \in Ts, v \in Vs : SetSharedData(k, t, v)
    \/ \E k \in Ks, t \in Ts : GetSharedData(k, t)

NextCtx == CtxCalls(Keys, TypeIds, Values)

\* A run drives the PluginManager or the PluginRegistry; only the registry's
\* start-up (plugins::initialize) reads the build's features.
InitPlugins ==
    /\ \/ kind = "manager" /\ features = FeatureFlags
       \/ kind = "registry" /\ features \in SUBSET FeatureFlags
    /\ plugins = EmptyMap
    /\ next_inst = 1
    /\ call = [t \in AllThreads |-> NoCall]

\* No plugin call is made in the runs of the bus and of the shared-data store.
InitNoPlugins ==
    /\ kind = "manager"
    /\ features = FeatureFlags
    /\ plugins = EmptyMap
    /\ next_inst = 1
    /\ call = [t \in AllThreads |-> NoCall]

\* The parts of the program a run does not drive stay as constructed.
InitExt ==
    /\ reentry = NoReentry
    /\ resource_manager = NoResourceManager
    /\ image_collection = NoImageCollection
    /\ builtin_states = NewPluginState

Init == InitBus /\ InitCtx /\ InitPlugins /\ InitExt
InitBusOnly == InitBus /\ InitCtx /\ InitNoPlugins /\ InitExt

\* Any collection of up to MaxImages entries, its cache empty
InitCollection ==
    /\ InitBus /\ InitCtx /\ InitNoPlugins
    /\ reentry = NoReentry
    /\ resource_manager = NoResourceManager
    /\ builtin_states = NewPluginState
    /\ \E metadata_list \in SeqsUpTo(AllMetadata, MaxImages) :
          image_collection = ImageCollectionState(NewImageCollection(metadata_list))

\* One thread: the API calls one after the other.
Next ==
    \/ \E t \in SeqThreads, id \in PluginIds : M_Register(t, id)
    \/ \E t \in SeqThreads, id \in PluginIds : M_Initialize(t, id)
    \/ \E t \in SeqThreads : M_InitCheck(t)
    \/ \E t \in SeqThreads, r \in CallbackResults : M_InitCallback(t, r)
    \/ \E t \in SeqThreads : M_InitCommit(t)
    \/ \E t \in SeqThreads, id \in PluginIds : M_Activate(t, id)
    \/ \E t \in SeqThreads : M_ActRelock(t)
    \/ \E t \in SeqThreads, r \in CallbackResults : M_ActCallback(t, r)
    \/ \E t \in SeqThreads : M_ActCommit(t)
    \/ \E t \in SeqThreads, id \in PluginIds : M_Deactivate(t, id)
    \/ \E t \in SeqThreads : M_DeactCheck(t)
    \/ \E t \in SeqThreads, r \in CallbackResults : M_DeactCallback(t, r)
    \/ \E t \in SeqThreads : M_DeactCommit(t)
    \/ \E t \in SeqThreads, id \in PluginIds : M_Unregister(t, id)
    \/ \E t \in SeqThreads : M_UnregRemove(t)
    \/ \E t \in SeqThreads, id \in PluginIds : R_Register(t, id)
    \/ \E t \in SeqThreads : R_RegisterInsert(t)
    \/ \E t \in SeqThreads, id \in PluginIds : R_Initialize(t, id)
    \/ \E t \in SeqThreads : R_InitState(t)
    \/ \E t \in SeqThreads, r \in CallbackResults : R_InitWrite(t, r)
    \/ \E t \in SeqThreads, id \in PluginIds : R_Unregister(t, id)
    \/ \E t \in SeqThreads : R_UnregRemove(t)
    \/ \E t \in SeqThreads : PluginsInitialize(t)
    \/ \E t \in SeqThreads : PluginsInitializeNext(t)
    \/ \E t \in SeqThreads, e \in PluginEventTypes, f \in SubscriberFails :
           SubscribeLifecycle(t, e, f)

\* The calls of PluginManager / PluginRegistry that change the plugin map, by threads T
ManagerCalls(T, Ids) ==
    \/ \E t \in T, id \in Ids : M_Register(t, id)
    \/ \E t \in T, id \in Ids : M_Initialize(t, id)
    \/ \E t \in T : M_InitCheck(t)
    \/ \E t \in T, r \in CallbackResults : M_InitCallback(t, r)
    \/ \E t \in T : M_InitCommit(t)
    \/ \E t \in T, id \in Ids : M_Activate(t, id)
    \/ \E t \in T : M_ActRelock(t)
    \/ \E t \in T, r \in CallbackResults : M_ActCallback(t, r)
    \/ \E t \in T : M_ActCommit(t)
    \/ \E t \in T, id \in Ids : M_Deactivate(t, id)
    \/ \E t \in T : M_DeactCheck(t)
    \/ \E t \in T, r \in CallbackResults : M_DeactCallback(t, r)
    \/ \E t \in T : M_DeactCommit(t)
    \/ \E t \in T, id \in Ids : M_Unregister(t, id)
    \/ \E t \in T : M_UnregRemove(t)

RegistryCalls(T, Ids) ==
    \/ \E t \in T, id \in Ids : R_Register(t, id)
    \/ \E t \in T : R_RegisterInsert(t)
    \/ \E t \in T, id \in Ids : R_Initialize(t, id)
    \/ \E t \in T : R_InitState(t)
    \/ \E t \in T, r \in CallbackResults : R_InitWrite(t, r)
    \/ \E t \in T, id \in Ids : R_Unregister(t, id)
    \/ \E t \in T : R_UnregRemove(t)

\* The queries and the configuration calls
QueryCalls(T) ==
    \/ \E t \in T, q \in MgrQueries : \E id \in QueryIds(q) : M_Query(t, id, q)
    \/ \E t \in T, id \in PluginIds, op \in ConfigOps : M_Config(t, id, op)
    \/ \E t \in T, r \in ConfigResults : M_ConfigCallback(t, r)
    \/ \E t \in T, q \in RegQueries : \E id \in QueryIds(q) : R_Query(t, id, q)
    \/ \E t \in T, id \in PluginIds, op \in ConfigOps, r \in ConfigResults :
           R_Config(t, id, op, r)

\* One thread, no bus subscriber: lifecycle calls, queries and configuration calls
NextQueries ==
    \/ ManagerCalls(SeqThreads, PluginIds)
    \/ RegistryCalls(SeqThreads, PluginIds)
    \/ QueryCalls(SeqThreads)

\* The threads of AllThreads calling concurrently on one plugin id: a step is
\* one lock region, one callback or one publish of one thread
NextConc ==
    \/ ManagerCalls(AllThreads, ConcIds)
    \/ RegistryCalls(AllThreads, ConcIds)

\* A thread in lifecycle calls on one plugin id while another reads and writes
\* the shared-data store
NextShared ==
    \/ ManagerCalls(SeqThreads, ConcIds)
    \/ RegistryCalls(SeqThreads, ConcIds)
    \/ CtxCalls(ConcKeys, ConcTypeIds, ConcValues)

Spec == Init /\ [][Next]_vars
SpecShared == Init /\ [][NextShared]_vars
SpecQueries == Init /\ [][NextQueries]_vars
SpecConc == Init /\ [][NextConc]_vars
SpecBus == InitBusOnly /\ [][NextBus]_vars
SpecCtx == InitBusOnly /\ [][NextCtx]_vars
SpecReentrant == InitBusOnly /\ [][NextReentrant]_vars
SpecResources == InitBusOnly /\ [][NextResources]_vars
SpecCollection == InitCollection /\ [][NextCollection]_vars
SpecBuiltin == InitBusOnly /\ [][NextBuiltin]_vars

-----------------------------------------------------------------------------
(* Properties *)

Range(seq) == {seq[i] : i \in DOMAIN seq}

\* How often the closure hid was called in a dispatch
Invocations(invoked, hid) == Cardinality({i \in DOMAIN invoked : invoked[i].hid = hid})

\* The handlers a dispatch of (event_type, target) has to reach
GlobalMatching == GlobalHandlersFor(handlers, dispatched.event_type)
ComponentMatching ==
    IF dispatched.target = None THEN <<>>
    ELSE ComponentHandlersFor(component_handlers, dispatched.target[1],
                              dispatched.event_type)
Matching == Range(GlobalMatching) \cup Range(ComponentMatching)

\* C5: after publish_to(X, E, data), every handler subscribed globally to E and
\* every handler subscribed for component X and E has been invoked exactly once,
\* and each invocation received a payload with event_type = E and target = X
\* (so with one of each, both are invoked exactly once).
C5_PublishToInvokesBothOnce ==
    dispatched.op = "publish_to" =>
        /\ \A h \in Matching : Invocations(dispatched.invoked, h.hid) = 1
        /\ \A i \in DOMAIN dispatched.invoked :
              /\ dispatched.invoked[i].payload.event_type = dispatched.event_type
              /\ dispatched.invoked[i].payload.target = dispatched.target
              /\ dispatched.invoked[i].payload.data = dispatched.data

C5_Witness ==
    /\ dispatched.op = "publish_to"
    /\ dispatched.event_type = "E" /\ dispatched.target = Some("X")
    /\ Len(GlobalMatching) = 1 /\ Len(ComponentMatching) = 1
    /\ Len(dispatched.invoked) = 2
    /\ dispatched.invoked[1].hid # dispatched.invoked[2].hid

\* C6: in a dispatch where some matching handler returns an error, every
\* matching handler (global, and the target's for the event type) is still
\* invoked, and the returned aggregate error contains the message of every
\* handler that failed.
C6_FailingHandlerStopsNothing ==
    (dispatched.op # "none" /\ \E h \in Matching : h.fails) =>
        /\ \A h \in Matching : Invocations(dispatched.invoked, h.hid) = 1
        /\ ~dispatched.result.ok
        /\ \A h \in Matching :
              h.fails => Contains(dispatched.result.err, HandlerMessage(h))

C6_Witness ==
    /\ dispatched.op = "publish_to"
    /\ Len(dispatched.invoked) = 2
    /\ ~dispatched.invoked[1].returned.ok
    /\ ~dispatched.invoked[2].returned.ok
    /\ Len(GlobalMatching) = 1 /\ Len(ComponentMatching) = 1
    /\ Contains(dispatched.result.err, HandlerMessage(GlobalMatching[1]))
    /\ Contains(dispatched.result.err, HandlerMessage(ComponentMatching[1]))

\* C7: a publish / publish_from / publish_to / publish_between call returns
\* success exactly when none of the handlers it invoked returned an error; with
\* no subscribed handler it succeeds.
C7_OkIffNoHandlerFailed ==
    dispatched.op # "none" =>
        /\ dispatched.result.ok <=>
              \A i \in DOMAIN dispatched.invoked : dispatched.invoked[i].returned.ok
        /\ Matching = {} => dispatched.result.ok

C7_Witness ==
    /\ dispatched.op = "publish_between"
    /\ Len(dispatched.invoked) = 2
    /\ dispatched.invoked[1].returned.ok
    /\ ~dispatched.invoked[2].returned.ok
    /\ ~dispatched.result.ok

C7_NoHandlerReached ==
    /\ dispatched.op = "publish"
    /\ Matching = {}
    /\ handlers # EmptyMap
    /\ dispatched.result.ok

\* C8: get_shared_data::<T>(key) on a key whose last set_shared_data::<U> had
\* U # T returns the type-mismatch error, neither None nor a value, and leaves
\* the store as it was.
C8_TypeMismatchIsAnError ==
    (/\ ctx_last.op = "get_shared_data"
     /\ ctx_last.key \in DOMAIN ctx_last.before
     /\ ctx_last.before[ctx_last.key].type_id # ctx_last.type_id) =>
        /\ ~ctx_last.result.ok
        /\ ctx_last.result.err = TypeMismatch(ctx_last.key)
        /\ ctx_last.result.value = None
        /\ shared_data = ctx_last.before

C8_Witness ==
    /\ ctx_last.op = "get_shared_data"
    /\ ctx_last.key = "k1" /\ ctx_last.type_id = "String"
    /\ "k1" \in DOMAIN shared_data
    /\ shared_data["k1"] = Boxed("i32", "v2")
    /\ ~ctx_last.result.ok

\* The API calls that have returned (with one thread: the last call)
Finished(op) == {t \in AllThreads : call[t].pc = "idle" /\ call[t].op = op}

EventTypesOf(events) == [i \in DOMAIN events |-> events[i].payload.event_type]

CallbacksSucceeded(c) == \A i \in DOMAIN c.callbacks : c.callbacks[i].returned.ok

SubscribersSucceeded(c) == \A i \in DOMAIN c.events : c.events[i].result.ok

AlreadyExistsError(id) ==
    IF kind = "manager" THEN MgrAlreadyRegistered(id) ELSE PluginAlreadyExists(id)

\* C1: register_plugin with an id that is already registered (PluginManager or
\* PluginRegistry) fails with the already-exists error, the plugin count is
\* unchanged and the existing entry (instance, state, error) is untouched; the
\* call publishes nothing.
C1_DuplicateRegisterRejected ==
    \A t \in Finished("register_plugin") :
        LET c == call[t]
        IN c.id \in DOMAIN c.before =>
              /\ ~c.res.ok
              /\ c.res.err = AlreadyExistsError(c.id)
              /\ Cardinality(DOMAIN plugins) = Cardinality(DOMAIN c.before)
              /\ plugins[c.id] = c.before[c.id]
              /\ plugins = c.before
              /\ c.events = <<>>

C1_Witness ==
    \E t \in Finished("register_plugin") :
        /\ kind = "registry"
        /\ call[t].id \in DOMAIN call[t].before
        /\ plugins[call[t].id].state = "Error"
        /\ plugins[call[t].id].inst # call[t].plugin
        /\ ~call[t].res.ok

\* C2: activate_plugin on a plugin in state Registered (its callbacks
\* succeeding) stores Initialized and then Active, and publishes exactly
\* plugin:initialized then plugin:activated.
C2_ActivateFreshPlugin ==
    \A t \in Finished("activate_plugin") :
        LET c == call[t]
        IN (/\ c.id \in DOMAIN c.before
            /\ c.before[c.id].state = "Registered"
            /\ CallbacksSucceeded(c)) =>
              /\ c.written = <<"Initialized", "Active">>
              /\ plugins[c.id].state = "Active"
              /\ EventTypesOf(c.events) = <<"plugin:initialized", "plugin:activated">>

\* C2, the part the code keeps: the same, as long as no subscriber of the
\* events the call publishes returns an error.
C2_ActivateFreshPluginQuietBus ==
    \A t \in Finished("activate_plugin") :
        LET c == call[t]
        IN (/\ c.id \in DOMAIN c.before
            /\ c.before[c.id].state = "Registered"
            /\ CallbacksSucceeded(c)
            /\ SubscribersSucceeded(c)) =>
              /\ c.res = Ok
              /\ c.written = <<"Initialized", "Active">>
              /\ plugins[c.id].state = "Active"
              /\ EventTypesOf(c.events) = <<"plugin:initialized", "plugin:activated">>

\* C3: deactivate_plugin on a registered plugin that is not Active returns
\* success, invokes no callback, publishes no event and leaves the entry (state
\* and error message) as it was.
C3_DeactivateNonActiveIsNoOp ==
    \A t \in Finished("deactivate_plugin") :
        LET c == call[t]
        IN (c.id \in DOMAIN c.before /\ c.before[c.id].state # "Active") =>
              /\ c.res = Ok
              /\ c.callbacks = <<>>
              /\ c.events = <<>>
              /\ c.written = <<>>
              /\ plugins[c.id].state = c.before[c.id].state
              /\ plugins[c.id].error = c.before[c.id].error
              /\ plugins = c.before

C3_Witness ==
    \E t \in Finished("deactivate_plugin") :
        /\ call[t].id \in DOMAIN plugins
        /\ plugins[call[t].id].state = "Error"
        /\ plugins[call[t].id].error # None
        /\ call[t].res = Ok

\* C4: unregister_plugin on an Active plugin (its deactivate callback
\* succeeding) runs the deactivate callback, publishes plugin:deactivated before
\* the entry is removed, and removes the entry: get_plugin_state then fails with
\* the not-found error and the plugin count is one less.
C4_UnregisterActivePlugin ==
    \A t \in Finished("unregister_plugin") :
        LET c == call[t]
        IN (/\ c.id \in DOMAIN c.before
            /\ c.before[c.id].state = "Active"
            /\ CallbacksSucceeded(c)) =>
              /\ Len(c.callbacks) = 1 /\ c.callbacks[1].callback = "deactivate"
              /\ c.written = <<"Inactive">>
              /\ Len(c.events) >= 1
              /\ c.events[1].payload = PluginEvent("plugin:deactivated", c.id)
              /\ c.id \notin DOMAIN plugins
              /\ MgrGetPluginState(plugins, c.id) =
                     [ok |-> FALSE, state |-> "", err |-> MgrNotFound(c.id)]
              /\ Cardinality(DOMAIN plugins) = Cardinality(DOMAIN c.before) - 1

\* C4, the part the code keeps: the same, as long as no subscriber of
\* plugin:deactivated returns an error.
C4_UnregisterActivePluginQuietBus ==
    \A t \in Finished("unregister_plugin") :
        LET c == call[t]
        IN (/\ c.id \in DOMAIN c.before
            /\ c.before[c.id].state = "Active"
            /\ CallbacksSucceeded(c)
            /\ Len(c.events) >= 1 /\ c.events[1].result.ok) =>
              /\ Len(c.callbacks) = 1 /\ c.callbacks[1].callback = "deactivate"
              /\ EventTypesOf(c.events) = <<"plugin:deactivated", "plugin:unregistered">>
              /\ c.id \notin DOMAIN plugins
              /\ ~MgrGetPluginState(plugins, c.id).ok
              /\ Cardinality(DOMAIN plugins) = Cardinality(DOMAIN c.before) - 1

DisabledBuiltins == {i \in DOMAIN BuiltinPlugins : BuiltinPlugins[i].feature \notin features}

Last(seq) == seq[Len(seq)]

\* The edges of the lifecycle, by the callback that was invoked and its result
DocumentedEdge(old, new, cb) ==
    IF cb.returned.ok
    THEN <<cb.callback, old, new>> \in
             { <<"initialize", "Registered", "Initialized">>,
               <<"activate", "Initialized", "Active">>,
               <<"deactivate", "Active", "Inactive">>,
               <<"activate", "Inactive", "Active">> }
    ELSE /\ new = "Error"
         /\ <<cb.callback, old>> \in
                { <<"initialize", "Registered">>, <<"activate", "Initialized">>,
                  <<"activate", "Inactive">>, <<"deactivate", "Active">> }

\* C10: under any sequence of register / initialize / activate / deactivate /
\* unregister calls, every change of a registered plugin's state is a documented
\* edge: Registered -> Initialized by initialize, Initialized -> Active and
\* Inactive -> Active by activate, Active -> Inactive by deactivate, or a move to
\* Error by a callback that failed during one of those; nothing else.
C10_OnlyDocumentedEdges ==
    [][\A id \in DOMAIN plugins \cap DOMAIN plugins' :
          plugins'[id].state # plugins[id].state =>
             \E t \in AllThreads :
                /\ call'[t] # call[t]
                /\ call'[t].id = id
                /\ call'[t].callbacks # <<>>
                /\ DocumentedEdge(plugins[id].state, plugins'[id].state,
                                  Last(call'[t].callbacks))]_vars

C10_Witness ==
    \E t \in Finished("activate_plugin") :
        /\ call[t].id \in DOMAIN call[t].before
        /\ call[t].before[call[t].id].state = "Inactive"
        /\ plugins[call[t].id].state = "Active"
        /\ call[t].written = <<"Active">>

\* get_plugin_error of the map this run drives
GetPluginError(id) ==
    IF kind = "manager" THEN MgrGetPluginError(plugins, id)
    ELSE RegGetPluginError(plugins, id)

\* C11: in every reachable state, an entry in state Error carries an error
\* message that is present and non-empty (get_plugin_error returns Some of a
\* non-empty string), whatever message the failing callback returned.
C11_ErrorStateHasMessage ==
    \A id \in DOMAIN plugins :
        plugins[id].state = "Error" =>
            /\ GetPluginError(id).ok
            /\ GetPluginError(id).error # None
            /\ GetPluginError(id).error[1] # <<>>

\* C11, the part the code keeps: the message of an entry in state Error is
\* present, and it is the message the failing callback returned.
C11_ErrorStateHasTheCallbackMessage ==
    /\ \A id \in DOMAIN plugins :
          plugins[id].state = "Error" <=> plugins[id].error # None
    /\ \A t \in AllThreads :
          LET c == call[t]
          IN (c.pc = "idle" /\ c.written # <<>> /\ Last(c.written) = "Error") =>
                GetPluginError(c.id).error = Some(Last(c.callbacks).returned.err)

\* C12: an entry in state Error stays as it is under every later
\* initialize_plugin, activate_plugin, deactivate_plugin, query and
\* configuration call; the id leaves Error only by unregister_plugin removing
\* the entry (a later register_plugin then adds a fresh one).
C12_ErrorIsSticky ==
    [][\A id \in DOMAIN plugins :
          plugins[id].state = "Error" =>
             \/ id \in DOMAIN plugins' /\ plugins'[id] = plugins[id]
             \/ /\ id \notin DOMAIN plugins'
                /\ \E t \in AllThreads :
                      /\ call'[t] # call[t]
                      /\ call'[t].op = "unregister_plugin"
                      /\ call'[t].id = id]_vars

C12_Witness ==
    \E t \in Finished("update_plugin_config") :
        /\ call[t].id \in DOMAIN call[t].before
        /\ call[t].before[call[t].id].state = "Error"
        /\ plugins[call[t].id].state = "Error"
        /\ call[t].res = Ok
        /\ Len(call[t].callbacks) = 1

\* C13: initialize_plugin on a plugin that is already Initialized or Active
\* returns success, on a plugin in Error an error; in both cases the plugin's
\* initialize callback is not invoked, no event is published and the entry is
\* unchanged.
C13_InitializeAgainIsNoOp ==
    \A t \in Finished("initialize_plugin") :
        LET c == call[t]
        IN (/\ c.id \in DOMAIN c.before
            /\ c.before[c.id].state \in {"Initialized", "Active", "Error"}) =>
              /\ c.res.ok <=> c.before[c.id].state # "Error"
              /\ c.callbacks = <<>>
              /\ c.events = <<>>
              /\ plugins = c.before

\* C13, the part the code keeps: nothing is invoked, published or changed; the
\* registry returns success on Initialized, the manager its not-registerable
\* error on every state but Registered.
C13_InitializeAgainChangesNothing ==
    \A t \in Finished("initialize_plugin") :
        LET c == call[t]
        IN (/\ c.id \in DOMAIN c.before
            /\ c.before[c.id].state \in {"Initialized", "Active", "Inactive", "Error"}) =>
              /\ c.callbacks = <<>>
              /\ c.events = <<>>
              /\ plugins = c.before
              /\ kind = "manager" => c.res = Err(MgrNotRegisterable(c.id))
              /\ kind = "registry" =>
                    (c.res.ok <=> c.before[c.id].state # "Error")

LifecycleOps == {"initialize_plugin", "activate_plugin", "deactivate_plugin"}

ErrorEvents(c) == {i \in DOMAIN c.events : c.events[i].payload.event_type = "plugin:error"}

\* C14: when the callback invoked by initialize_plugin, activate_plugin or
\* deactivate_plugin returns an error, the entry moves to Error with the
\* callback's message as its error (what get_plugin_error returns), exactly one
\* plugin:error event is published, carrying the plugin id, the message and
\* the failed operation, and the call returns an error.
C14_CallbackFailure ==
    \A t \in AllThreads :
        LET c == call[t]
        IN (/\ c.pc = "idle" /\ c.op \in LifecycleOps
            /\ c.callbacks # <<>> /\ ~Last(c.callbacks).returned.ok) =>
              LET failed == Last(c.callbacks)
              IN /\ c.id \in DOMAIN plugins
                 /\ plugins[c.id].state = "Error"
                 /\ GetPluginError(c.id) =
                        [ok |-> TRUE, error |-> Some(failed.returned.err), err |-> <<>>]
                 /\ Cardinality(ErrorEvents(c)) = 1
                 /\ Last(c.events).payload =
                        PluginErrorEvent(c.id, failed.returned.err, failed.callback)
                 /\ ~c.res.ok

C14_Witness ==
    \E t \in Finished("deactivate_plugin") :
        /\ call[t].callbacks # <<>>
        /\ Last(call[t].callbacks) =
               [callback |-> "deactivate", inst |-> plugins[call[t].id].inst,
                returned |-> Err(<<"callback failed">>)]
        /\ plugins[call[t].id].state = "Error"
        /\ Last(call[t].events).payload.data.operation = "deactivate"
        /\ ~Last(call[t].events).result.ok

\* C15: activate_plugin on a plugin that is already Active returns success
\* without invoking a callback or publishing an event; on a plugin in Error it
\* returns an error whose text includes the stored error message, without
\* invoking a callback and without changing the entry.
C15_ActivateActiveOrError ==
    \A t \in Finished("activate_plugin") :
        LET c == call[t]
        IN /\ (c.id \in DOMAIN c.before /\ c.before[c.id].state = "Active") =>
                 /\ c.res = Ok
                 /\ c.callbacks = <<>>
                 /\ c.events = <<>>
                 /\ plugins = c.before
           /\ (c.id \in DOMAIN c.before /\ c.before[c.id].state = "Error") =>
                 /\ ~c.res.ok
                 /\ c.before[c.id].error # None =>
                       Contains(c.res.err, c.before[c.id].error[1])
                 /\ c.callbacks = <<>>
                 /\ c.events = <<>>
                 /\ plugins = c.before

C15_Witness ==
    \E t \in Finished("activate_plugin") :
        /\ call[t].id \in DOMAIN plugins
        /\ plugins[call[t].id].state = "Error"
        /\ plugins[call[t].id].error = Some(<<"callback failed">>)
        /\ call[t].res =
               Err(<<"Cannot activate plugin in error state: ", "callback failed">>)

C15_ActiveReached ==
    \E t \in Finished("activate_plugin") :
        /\ call[t].id \in DOMAIN call[t].before
        /\ call[t].before[call[t].id].state = "Active"
        /\ call[t].res = Ok

\* C16: activate_plugin on a plugin in state Inactive invokes the plugin's
\* activate callback and not its initialize callback; when the callback
\* succeeds the entry becomes Active and plugin:activated is published. This
\* holds every time the plugin is Inactive, so the cycle Active -> Inactive ->
\* Active repeats.
C16_Reactivation ==
    \A t \in Finished("activate_plugin") :
        LET c == call[t]
        IN (c.id \in DOMAIN c.before /\ c.before[c.id].state = "Inactive") =>
              /\ Len(c.callbacks) = 1
              /\ c.callbacks[1].callback = "activate"
              /\ c.callbacks[1].inst = c.before[c.id].inst
              /\ c.callbacks[1].returned.ok =>
                    /\ plugins[c.id].state = "Active"
                    /\ plugins[c.id].error = None
                    /\ c.written = <<"Active">>
                    /\ Len(c.events) = 1
                    /\ c.events[1].payload = PluginEvent("plugin:activated", c.id)

C16_Witness ==
    \E t \in Finished("activate_plugin") :
        /\ call[t].id \in DOMAIN call[t].before
        /\ call[t].before[call[t].id].state = "Inactive"
        /\ call[t].callbacks[1].returned.ok
        /\ plugins[call[t].id].state = "Active"
        /\ call[t].res = Ok

UnregisteredEvents(c) ==
    {i \in DOMAIN c.events : c.events[i].payload = PluginEvent("plugin:unregistered", c.id)}

NotFoundError(id) == IF kind = "manager" THEN MgrNotFound(id) ELSE PluginNotFound(id)

\* C17: unregister_plugin of an id that is not registered returns the not-found
\* error, publishes nothing and leaves the map as it was; unregister_plugin of
\* a registered id removes exactly that entry and publishes plugin:unregistered
\* exactly once.
C17_Unregister ==
    \A t \in Finished("unregister_plugin") :
        LET c == call[t]
        IN /\ c.id \notin DOMAIN c.before =>
                 /\ c.res = Err(NotFoundError(c.id))
                 /\ c.events = <<>>
                 /\ plugins = c.before
           /\ c.id \in DOMAIN c.before =>
                 /\ plugins = MapRemove(c.before, c.id)
                 /\ Cardinality(UnregisteredEvents(c)) = 1

\* C17, the part the code keeps: the unknown-id half always, and the
\* registered-id half when the nested deactivate call returned success (its
\* callback and every subscriber of plugin:deactivated succeeded).
C17_UnregisterAfterCleanDeactivate ==
    \A t \in Finished("unregister_plugin") :
        LET c == call[t]
        IN /\ c.id \notin DOMAIN c.before =>
                 /\ c.res = Err(NotFoundError(c.id))
                 /\ c.events = <<>>
                 /\ plugins = c.before
           /\ (/\ c.id \in DOMAIN c.before
               /\ CallbacksSucceeded(c)
               /\ \A i \in DOMAIN c.events :
                     c.events[i].payload.event_type = "plugin:deactivated"
                         => c.events[i].result.ok) =>
                 /\ plugins = MapRemove(c.before, c.id)
                 /\ Cardinality(UnregisteredEvents(c)) = 1

C17_UnknownIdReached ==
    \E t \in Finished("unregister_plugin") :
        /\ call[t].id \notin DOMAIN call[t].before
        /\ DOMAIN call[t].before # {}

C17_RemovedReached ==
    \E t \in Finished("unregister_plugin") :
        /\ call[t].id \in DOMAIN call[t].before
        /\ call[t].id \notin DOMAIN plugins
        /\ DOMAIN plugins # {}

\* The most recent set_shared_data call on a key, None when there was none
LastSetOf(log, key) ==
    LET on_key == {i \in DOMAIN log : log[i].key = key}
    IN IF on_key = {} THEN None
       ELSE Some(log[CHOOSE i \in on_key : \A j \in on_key : j <= i])

\* C18: get_shared_data::<T>(key) returns Ok(None) when no set_shared_data was
\* ever made on the key; otherwise, when T is the type of the most recent set
\* on that key, it returns that set's value, whatever was set on the key before
\* (a value of another type included) and whatever was set on other keys.
C18_GetReturnsMostRecentSet ==
    ctx_last.op = "get_shared_data" =>
        LET last == LastSetOf(set_log, ctx_last.key)
        IN /\ last = None =>
                 ctx_last.result = [ok |-> TRUE, value |-> None, err |-> <<>>]
           /\ (last # None /\ last[1].type_id = ctx_last.type_id) =>
                 ctx_last.result = [ok |-> TRUE, value |-> Some(last[1].value), err |-> <<>>]
           /\ shared_data = ctx_last.before

\* k1 set as i32, overwritten as String, then k2 set, then k1 read as String
C18_Witness ==
    /\ ctx_last.op = "get_shared_data"
    /\ ctx_last.key = "k1" /\ ctx_last.type_id = "String"
    /\ set_log = <<[key |-> "k1", type_id |-> "i32", value |-> "v1"],
                   [key |-> "k1", type_id |-> "String", value |-> "v2"],
                   [key |-> "k2", type_id |-> "String", value |-> "v1"]>>
    /\ ctx_last.result.value = Some("v2")

C18_NeverSetReached ==
    /\ ctx_last.op = "get_shared_data"
    /\ ctx_last.key = "k2"
    /\ set_log # <<>>
    /\ LastSetOf(set_log, "k2") = None

\* C19: the bus is never asked to dispatch an event while the plugin map's
\* lock is held: every event a registry or manager call publishes is published
\* after the lock was released.
C19_NoDispatchUnderLock ==
    \A t \in AllThreads :
        \A i \in DOMAIN call[t].events : ~call[t].events[i].locked

\* The positions of a lifecycle call after its state check and before its
\* state write: PluginManager's initialize, activate (with its nested
\* initialize) and deactivate, PluginRegistry's initialize
BetweenCheckAndWrite ==
    {"init_check", "init_callback", "init_commit", "act_relock", "act_callback",
     "act_commit", "deact_callback", "deact_commit", "rinit_write"}

InLifecycleCall(t) ==
    /\ call[t].op \in {"initialize_plugin", "activate_plugin", "deactivate_plugin"}
    /\ call[t].pc \in BetweenCheckAndWrite

EntryOf(ps, id) == IF id \in DOMAIN ps THEN Some(ps[id]) ELSE None

\* C20: while a thread's lifecycle call is between its state check and its
\* state write, no step of another thread changes or removes the entry the
\* call is about.
C20_ExclusiveAccess ==
    [][\A t \in AllThreads :
          (InLifecycleCall(t) /\ call'[t] = call[t]) =>
              EntryOf(plugins', call[t].id) = EntryOf(plugins, call[t].id)]_vars

\* Two lifecycle calls on the same entry are between check and write together
C20_BothInside ==
    /\ InLifecycleCall(1) /\ InLifecycleCall(2)
    /\ call[1].id = call[2].id

C21_SharedDataTouchesOnlyTheStore ==
    [][(shared_data' # shared_data \/ ctx_last' # ctx_last) =>
           UNCHANGED <<plugins, call, handlers, component_handlers>>]_vars

Performing(t) == IF call[t].pc = "idle" THEN call'[t].op ELSE call[t].fn

ReadOnlyCalls ==
    {"get_plugin_state", "get_plugin_error", "get_all_plugin_ids",
     "get_active_plugin_ids", "get_plugin_count"}

\* C22: an entry appears only in a register_plugin step, and then in state
\* Registered with no error; an entry's state or error changes only in a step
\* of initialize_plugin, activate_plugin or deactivate_plugin; an entry
\* disappears only in a step of unregister_plugin; a step of a query or of
\* get_plugin_config / update_plugin_config leaves the map as it is, and a
\* query returns an error only when its id is unknown.
C22_WhoChangesEntries ==
    [][\A t \in AllThreads :
          call'[t] # call[t] =>
              /\ \A id \in PluginIds :
                    /\ (id \notin DOMAIN plugins /\ id \in DOMAIN plugins') =>
                           /\ Performing(t) = "register_plugin"
                           /\ plugins'[id].state = "Registered"
                           /\ plugins'[id].error = None
                    /\ (id \in DOMAIN plugins /\ id \in DOMAIN plugins'
                          /\ plugins'[id] # plugins[id]) =>
                           Performing(t) \in LifecycleOps
                    /\ (id \in DOMAIN plugins /\ id \notin DOMAIN plugins') =>
                           Performing(t) = "unregister_plugin"
              /\ Performing(t) \in ReadOnlyCalls \cup ConfigOps => plugins' = plugins
              /\ (Performing(t) \in ReadOnlyCalls /\ call'[t].pc = "idle") =>
                    (call'[t].res.ok <=>
                        (call'[t].id = "" \/ call'[t].id \in DOMAIN plugins))]_vars

\* A query and a configuration call have returned on a map that holds a plugin
\* past its registration
C22_Witness ==
    /\ \E t \in Finished("get_plugin_error") : call[t].res.ok
    /\ \E id \in DOMAIN plugins : plugins[id].state \notin {"Registered"}

C22_ConfigReached ==
    \E t \in Finished("update_plugin_config") :
        /\ ~call[t].res.ok
        /\ call[t].id \in DOMAIN plugins
        /\ plugins[call[t].id].state = "Active"

LifecycleCallbacks == {"initialize", "activate", "deactivate"}

\* The lifecycle callbacks of a call that returned an error
FailedCallbacks(c) ==
    {i \in DOMAIN c.callbacks :
        c.callbacks[i].callback \in LifecycleCallbacks /\ ~c.callbacks[i].returned.ok}

\* A call whose lifecycle callback failed invokes nothing after it and, once
\* returned, has recorded the callback's message on the entry and published
\* plugin:error once
FailureRecordedOnce ==
    \A t \in AllThreads :
        LET c == call[t]
        IN \A i \in FailedCallbacks(c) :
              /\ i = Len(c.callbacks)
              /\ c.pc = "idle" =>
                    /\ c.id \in DOMAIN plugins
                    /\ plugins[c.id].state = "Error"
                    /\ plugins[c.id].error = Some(c.callbacks[i].returned.err)
                    /\ Cardinality(ErrorEvents(c)) = 1
                    /\ c.written # <<>> /\ Last(c.written) = "Error"

\* The step of thread t invokes a lifecycle callback
InvokesLifecycleCallback(t) ==
    /\ Len(call'[t].callbacks) > 0
    /\ call'[t].callbacks # call[t].callbacks
    /\ Last(call'[t].callbacks).callback \in LifecycleCallbacks

\* No lifecycle callback is invoked on the plugin of an entry in state Error
NeverRetried ==
    \A t \in AllThreads :
        InvokesLifecycleCallback(t) =>
            \A id \in DOMAIN plugins :
                plugins[id].inst = Last(call'[t].callbacks).inst
                    => plugins[id].state # "Error"

\* C23: a failing lifecycle callback ends its call's callbacks, leaves exactly
\* one recorded message and one plugin:error event, and no later call invokes a
\* lifecycle callback on that entry's plugin.
C23_RecordedOnceNeverRetried == []FailureRecordedOnce /\ [][NeverRetried]_vars

\* After a failed callback, initialize, activate and deactivate were called
\* again on the entry, which is still in state Error
C23_Witness ==
    \E t \in AllThreads :
        /\ call[t].pc = "idle" /\ call[t].op \in LifecycleOps
        /\ call[t].id \in DOMAIN call[t].before
        /\ call[t].before[call[t].id].state = "Error"
        /\ call[t].callbacks = <<>>
        /\ plugins = call[t].before

C23_FailureReached ==
    \E t \in AllThreads :
        /\ call[t].pc = "idle"
        /\ FailedCallbacks(call[t]) # {}
        /\ Len(call[t].callbacks) = 2

\* C24: once startup has run plugins::initialize, exactly one event bus and
\* exactly one plugin registry have been constructed, and the registry that
\* holds the registered plugins has published its events on the bus the
\* application state holds.
C24_OneBusOneRegistry ==
    \A t \in Finished("plugins_initialize") :
        /\ Cardinality(Constructed("EventBus")) = 1
        /\ Cardinality(Constructed("PluginRegistry") \cup Constructed("PluginManager")) = 1
        /\ call[t].events # <<>> => PluginHolder.event_bus = AppState.event_bus

\* C25: plugins::initialize returns Ok with a registry whose ids are exactly
\* those of get_enabled_plugins(), each in state Registered, and whose plugin
\* count is greater than zero.
C25_InitializeRegistersEnabled ==
    \A t \in Finished("plugins_initialize") :
        /\ call[t].res = Ok
        /\ DOMAIN plugins = GetEnabledPlugins(features)
        /\ \A id \in DOMAIN plugins :
              plugins[id].state = "Registered" /\ plugins[id].error = None
        /\ RegGetPluginCount(plugins) > 0

\* C25, the part the code keeps: the same with the plugin count equal to the
\* number of enabled plugin features, which is zero for a build with none.
C25_InitializeRegistersEnabledOnly ==
    \A t \in Finished("plugins_initialize") :
        /\ call[t].res = Ok
        /\ DOMAIN plugins = GetEnabledPlugins(features)
        /\ \A id \in DOMAIN plugins :
              plugins[id].state = "Registered" /\ plugins[id].error = None
        /\ RegGetPluginCount(plugins) = Cardinality(features \cap Range(
               [i \in DOMAIN BuiltinPlugins |-> BuiltinPlugins[i].feature]))

C25_BothRegisteredReached ==
    \E t \in Finished("plugins_initialize") : RegGetPluginCount(plugins) = 2

\* The closures subscribed with subscribe(e, ..) and with
\* subscribe_component(c, e, ..), read off the two handler maps
SubscribedGlobally(e) ==
    IF e \in DOMAIN handlers THEN {handlers[e][i].hid : i \in DOMAIN handlers[e]} ELSE {}

SubscribedFor(c, e) ==
    IF c \in DOMAIN component_handlers /\ e \in DOMAIN component_handlers[c]
    THEN {component_handlers[c][e][i].hid : i \in DOMAIN component_handlers[c][e]}
    ELSE {}

InvokedHandlers == {dispatched.invoked[i].hid : i \in DOMAIN dispatched.invoked}

\* C26: publish and publish_from invoke exactly the global handlers of the
\* event type; publish_to and publish_between with target X invoke exactly
\* those and the handlers of component X for the event type; no handler of
\* another component or event type runs, and the source makes no difference.
C26_RoutingByTypeAndTarget ==
    /\ dispatched.op \in {"publish", "publish_from"} =>
           InvokedHandlers = SubscribedGlobally(dispatched.event_type)
    /\ dispatched.op \in {"publish_to", "publish_between"} =>
           InvokedHandlers = SubscribedGlobally(dispatched.event_type)
                                 \cup SubscribedFor(dispatched.target[1], dispatched.event_type)

\* publish_from("X", "E", ..) while component X has a handler for E: it is
\* not invoked
C26_Witness ==
    /\ dispatched.op = "publish_from"
    /\ dispatched.source = Some("X") /\ dispatched.event_type = "E"
    /\ SubscribedFor("X", "E") # {}
    /\ SubscribedGlobally("E") # {}
    /\ Len(dispatched.invoked) = 1

C26_OtherComponentReached ==
    /\ dispatched.op = "publish_between"
    /\ dispatched.target = Some("Y")
    /\ SubscribedFor("X", dispatched.event_type) # {}
    /\ SubscribedFor("Y", dispatched.event_type) # {}

\* C27: of the register_plugin calls that threads make concurrently with
\* plugins of one id, a call returns success only if the id was absent when it
\* stored its plugin, and the plugin stored under an id is never replaced by
\* another call's plugin.
C27_OneRegistrationWins ==
    [][/\ \A t \in AllThreads :
             (/\ call[t].pc = "reg_insert"
              /\ call'[t].pc = "idle"
              /\ call'[t].res.ok) => call[t].id \notin DOMAIN plugins
       /\ \A id \in DOMAIN plugins \cap DOMAIN plugins' :
             plugins'[id].inst = plugins[id].inst]_vars

\* The initialize invocations on plugin instance i that the threads' calls record
InitializeInvocations(i) ==
    {<<t, k>> \in AllThreads \X (1..2) :
        /\ k \in DOMAIN call[t].callbacks
        /\ call[t].callbacks[k].callback = "initialize"
        /\ call[t].callbacks[k].inst = i}

\* C28: the initialize callback of a registered plugin instance is invoked at
\* most once, whichever threads call initialize_plugin or activate_plugin for
\* its id.
C28_InitializeAtMostOnce ==
    \A i \in 1..(MaxInst + 1) : Cardinality(InitializeInvocations(i)) <= 1

\* The step of thread t invokes the given callback
InvokesCallback(t, callback) ==
    /\ Len(call'[t].callbacks) > 0
    /\ call'[t].callbacks # call[t].callbacks
    /\ Last(call'[t].callbacks).callback = callback

\* Some call in progress or just returned has had initialize return Ok on
\* plugin instance i
InitializeSucceededOn(i) ==
    \E t \in AllThreads : \E k \in DOMAIN call[t].callbacks :
        /\ call[t].callbacks[k].callback = "initialize"
        /\ call[t].callbacks[k].inst = i
        /\ call[t].callbacks[k].returned.ok

\* Instance i cannot have been initialized: its entry is still in state
\* Registered, which a returned initialize_plugin never leaves behind, and no
\* call records a successful initialize on it
NeverInitialized(i) ==
    /\ \E id \in DOMAIN plugins : plugins[id].inst = i /\ plugins[id].state = "Registered"
    /\ ~InitializeSucceededOn(i)

CurrentlyActive(i) ==
    \E id \in DOMAIN plugins : plugins[id].inst = i /\ plugins[id].state = "Active"

\* C29, first half: activate is invoked only on an instance whose initialize
\* has returned success.
C29_ActivateOnlyInitialized ==
    [][\A t \in AllThreads :
          InvokesCallback(t, "activate") =>
              ~NeverInitialized(Last(call'[t].callbacks).inst)]_vars

\* C29, second half: deactivate is invoked only on an instance that is Active.
C29_DeactivateOnlyActive ==
    [][\A t \in AllThreads :
          InvokesCallback(t, "deactivate") =>
              CurrentlyActive(Last(call'[t].callbacks).inst)]_vars

\* C29: under any interleaving of register, initialize, activate, deactivate
\* and unregister calls, the manager invokes activate only on an instance whose
\* initialize has returned success and deactivate only on an instance that is
\* currently Active.
C29_CallbacksInOrder ==
    [][\A t \in AllThreads :
          /\ InvokesCallback(t, "activate") =>
                 ~NeverInitialized(Last(call'[t].callbacks).inst)
          /\ InvokesCallback(t, "deactivate") =>
                 CurrentlyActive(Last(call'[t].callbacks).inst)]_vars

\* C30: activate_plugin never panics: when the entry is gone at the moment
\* activate_plugin locks the plugin map again after its nested
\* initialize_plugin, the call returns the not-found error.
C30_ActivateNeverPanics ==
    [][\A t \in AllThreads :
          (/\ call[t].pc = "act_relock"
           /\ call'[t] # call[t]
           /\ call[t].id \notin DOMAIN plugins) =>
              /\ call'[t].pc = "idle"
              /\ call'[t].res = Err(MgrNotFound(call[t].id))
              /\ call'[t].res # PanicUnwrapNone]_vars

\* C31: a register_plugin call that returns an error has added no entry and
\* left the plugin count as it was; one that returns success has added exactly
\* one entry, in state Registered; also when a subscriber of plugin:registered
\* returns an error.
C31_RegisterResultMatchesMap ==
    \A t \in Finished("register_plugin") :
        LET c == call[t]
        IN /\ ~c.res.ok =>
                 /\ plugins = c.before
                 /\ Cardinality(DOMAIN plugins) = Cardinality(DOMAIN c.before)
           /\ c.res.ok =>
                 /\ c.id \notin DOMAIN c.before
                 /\ DOMAIN plugins = DOMAIN c.before \cup {c.id}
                 /\ plugins[c.id].state = "Registered"
                 /\ plugins[c.id].error = None
                 /\ \A id \in DOMAIN c.before : plugins[id] = c.before[id]

\* C31, the part the code keeps: the same for every call whose subscribers of
\* plugin:registered all returned Ok.
C31_RegisterResultMatchesMapQuietBus ==
    \A t \in Finished("register_plugin") :
        LET c == call[t]
        IN SubscribersSucceeded(c) =>
              /\ ~c.res.ok => plugins = c.before
              /\ c.res.ok =>
                    /\ c.id \notin DOMAIN c.before
                    /\ DOMAIN plugins = DOMAIN c.before \cup {c.id}
                    /\ plugins[c.id].state = "Registered"
                    /\ \A id \in DOMAIN c.before : plugins[id] = c.before[id]

TargetOf(op) ==
    IF op = "initialize_plugin" THEN "Initialized"
    ELSE IF op = "activate_plugin" THEN "Active"
    ELSE "Inactive"

\* The entry is where the operation was to bring it
TargetReached(c) ==
    IF c.op = "unregister_plugin" THEN c.id \notin DOMAIN plugins
    ELSE /\ c.id \in DOMAIN plugins
         /\ plugins[c.id].state = TargetOf(c.op)
         /\ c.written # <<>> /\ Last(c.written) = TargetOf(c.op)

\* The documented calls that change nothing and succeed
DocumentedNoOp(c) ==
    /\ c.id \in DOMAIN c.before
    /\ plugins = c.before
    /\ \/ c.op = "activate_plugin" /\ c.before[c.id].state = "Active"
       \/ c.op = "deactivate_plugin" /\ c.before[c.id].state # "Active"

\* C32: initialize_plugin, activate_plugin, deactivate_plugin and
\* unregister_plugin on a registered id return success exactly when the entry
\* reached the operation's target or the call was a documented no-op, whatever
\* the subscribers of the plugin:* events return; and an activate_plugin whose
\* nested initialize succeeded goes on to the activate callback.
C32_SuccessIffTargetReached ==
    \A t \in AllThreads :
        LET c == call[t]
        IN (/\ c.pc = "idle"
            /\ c.op \in LifecycleOps \cup {"unregister_plugin"}
            /\ c.id \in DOMAIN c.before
            /\ c.before[c.id].state # "Error") =>
              /\ (TargetReached(c) \/ DocumentedNoOp(c)) => c.res.ok
              /\ c.res.ok => (TargetReached(c) \/ DocumentedNoOp(c)
                                \/ c.op = "initialize_plugin")
              /\ (/\ c.op = "activate_plugin"
                  /\ c.before[c.id].state = "Registered"
                  /\ c.callbacks # <<>> /\ c.callbacks[1].returned.ok) =>
                     /\ Len(c.callbacks) = 2
                     /\ c.callbacks[2].callback = "activate"

\* C32, the part the code keeps: the same for calls whose subscribers all
\* returned Ok.
C32_SuccessIffTargetReachedQuietBus ==
    \A t \in AllThreads :
        LET c == call[t]
        IN (/\ c.pc = "idle"
            /\ c.op \in LifecycleOps \cup {"unregister_plugin"}
            /\ c.id \in DOMAIN c.before
            /\ c.before[c.id].state # "Error"
            /\ SubscribersSucceeded(c)) =>
              /\ (TargetReached(c) \/ DocumentedNoOp(c)) => c.res.ok
              /\ c.res.ok => (TargetReached(c) \/ DocumentedNoOp(c)
                                \/ c.op = "initialize_plugin")
              /\ (/\ c.op = "activate_plugin"
                  /\ c.before[c.id].state = "Registered"
                  /\ c.callbacks # <<>> /\ c.callbacks[1].returned.ok) =>
                     /\ Len(c.callbacks) = 2
                     /\ c.callbacks[2].callback = "activate"

\* The identities of a list of handlers or of invocations, in order
HidsOf(seq) == [i \in DOMAIN seq |-> seq[i].hid]

\* Identities grow with the order of subscription
InSubscriptionOrder(hids) ==
    \A i, j \in DOMAIN hids : i < j => hids[i] < hids[j]

\* The invocations of the last dispatch that returned Err, in order
FailedInvocations == SelectSeq(dispatched.invoked, LAMBDA v : ~v.returned.ok)

\* C34: within one dispatch every global handler of the event type is invoked
\* before any component handler, each group in the order of subscription, and
\* the failure messages of the aggregate error are in the order of invocation,
\* joined by "; ".
C34_GlobalsFirstInSubscriptionOrder ==
    dispatched.op # "none" =>
        LET g == HidsOf(GlobalHandlersFor(handlers, dispatched.event_type))
            c == IF dispatched.target = None THEN <<>>
                 ELSE HidsOf(ComponentHandlersFor(component_handlers,
                                 dispatched.target[1], dispatched.event_type))
            inv == HidsOf(dispatched.invoked)
            failed == FailedInvocations
        IN /\ inv = g \o c
           /\ InSubscriptionOrder(SubSeq(inv, 1, Len(g)))
           /\ InSubscriptionOrder(SubSeq(inv, Len(g) + 1, Len(inv)))
           /\ Len(dispatched.errors) = Len(failed)
           /\ \A i \in DOMAIN failed :
                 /\ Contains(dispatched.errors[i], failed[i].returned.err)
                 /\ (dispatched.errors[i][1] = GlobalPrefix[1])
                       <=> (\E k \in DOMAIN g : g[k] = failed[i].hid)
           /\ failed # <<>> =>
                 /\ ~dispatched.result.ok
                 /\ dispatched.result.err = Join(dispatched.errors, <<"; ">>)
                 /\ Len(failed) = 2 =>
                       dispatched.result.err =
                           dispatched.errors[1] \o <<"; ">> \o dispatched.errors[2]

\* C34 witness: a dispatch invoked a failing global handler and then a failing
\* component handler subscribed before it.
C34_Witness ==
    /\ dispatched.op \in {"publish_to", "publish_between"}
    /\ Len(dispatched.invoked) = 2
    /\ Len(dispatched.errors) = 2
    /\ dispatched.invoked[1].hid = 2
    /\ dispatched.invoked[2].hid = 1
    /\ dispatched.errors[1][1] = GlobalPrefix[1]

\* What must hold after unsubscribe_component(c)
UnsubscribedPost(c) ==
    /\ c \notin DOMAIN component_handlers'
    /\ \A e \in EventTypes :
          /\ ComponentHandlersFor(component_handlers', c, e) = <<>>
          /\ HidsOf(DispatchEvent(handlers', component_handlers',
                                  EventPayload(e, "d", None, Some(c))).invoked)
                = HidsOf(GlobalHandlersFor(handlers, e))
    /\ handlers' = handlers
    /\ \A o \in Components \ {c} :
          /\ (o \in DOMAIN component_handlers') <=> (o \in DOMAIN component_handlers)
          /\ \A e \in EventTypes :
                /\ ComponentHandlersFor(component_handlers', o, e)
                      = ComponentHandlersFor(component_handlers, o, e)
                /\ DispatchEvent(handlers', component_handlers',
                                 EventPayload(e, "d", None, Some(o)))
                      = DispatchEvent(handlers, component_handlers,
                                      EventPayload(e, "d", None, Some(o)))
    /\ c \notin DOMAIN component_handlers =>
          component_handlers' = component_handlers

\* C35: unsubscribe_component(c) removes every handler of component c under
\* every event type, so that a later publish_to(c, e) invokes none of them; the
\* global handlers and the handlers of other components stay and are invoked
\* as before; for a component without handlers it changes nothing.
C35_UnsubscribeRemovesOnlyThatComponent ==
    [][\A c \in Components : UnsubscribeComponent(c) => UnsubscribedPost(c)]_vars

\* C35 witness: the second handler subscribed is gone while the first, of
\* another component, is still there, and a publish_to the unsubscribed
\* component invoked nothing.
C35_Witness ==
    /\ next_handler = 3
    /\ handlers = EmptyMap
    /\ DOMAIN component_handlers = {"Y"}
    /\ \E e \in EventTypes :
          HidsOf(ComponentHandlersFor(component_handlers, "Y", e)) = <<1>>
    /\ dispatched.op = "publish_to"
    /\ dispatched.target = Some("X")
    /\ dispatched.invoked = <<>>

\* C33: a dispatch whose handlers all return comes to its end, also when a
\* handler calls subscribe, subscribe_component, unsubscribe_component,
\* clear_all_handlers or publish on the same bus: no such call waits for ever
\* on a lock of the bus (nor fails to return in another way).
C33_ReentrantCallsNeverBlock ==
    reentry.status \notin RelockOutcomes

\* C33, the part the code keeps: a call from a handler is stopped only by a
\* guard that a dispatch below it on the same thread holds.
C33_BlockedOnlyOnHeldGuard ==
    reentry.status \in RelockOutcomes =>
        /\ reentry.waiting \in HeldGuards(reentry.stack)
        /\ reentry.stack # <<>>

LastResolve ==
    /\ resource_manager.last.op = "internal_resolve_resources"
    /\ resource_manager.last.result.ok

\* C36: the list internal_resolve_resources returns holds no path twice, also
\* when include paths overlap or repeat, is in ascending order, and count is its
\* length.
C36_ResolvedPathsSortedAndUnique ==
    LastResolve =>
        LET v == resource_manager.last.value[1]
        IN /\ \A i, j \in DOMAIN v.paths : i # j => v.paths[i] # v.paths[j]
           /\ \A i, j \in DOMAIN v.paths : i < j => StrLess(v.paths[i], v.paths[j])
           /\ v.count = Len(v.paths)
           /\ v.count = Cardinality(Range(v.paths))

\* C36 witness: overlapping include directories were scanned, the outer one
\* last, and the call returned the two images once each.
C36_Witness ==
    /\ LastResolve
    /\ resource_manager.last.scanned = <<DirB, DirA>>
    /\ resource_manager.last.value[1].paths = <<FileY, FileX>>
    /\ resource_manager.last.value[1].count = 2

\* C37: once internal_resolve_resources succeeded for a config id, a later call
\* with that id returns the cached list without scanning, whatever its filters,
\* until clear_cache or clear_config_cache(id); clear_config_cache(id) drops the
\* list of that id only.
C37_CachedUntilCleared ==
    LET l == resource_manager.last
        pc == resource_manager.path_cache
    IN /\ (l.op = "internal_resolve_resources" /\ l.config.id \in DOMAIN l.before) =>
              /\ l.result.ok
              /\ l.value[1].paths = l.before[l.config.id]
              /\ l.scanned = <<>>
              /\ pc = l.before
       /\ (l.op = "internal_resolve_resources" /\ l.config.id \notin DOMAIN l.before) =>
              /\ l.scanned = <<>> <=> l.config.filters.include = <<>>
              /\ l.result.ok => pc = MapPut(l.before, l.config.id, l.value[1].paths)
              /\ ~l.result.ok => pc = l.before
       /\ l.op = "clear_config_cache" =>
              /\ l.config.id \notin DOMAIN pc
              /\ \A id \in ConfigIds \ {l.config.id} :
                    /\ (id \in DOMAIN pc) <=> (id \in DOMAIN l.before)
                    /\ id \in DOMAIN pc => pc[id] = l.before[id]
       /\ l.op = "clear_cache" => pc = EmptyMap

\* C37 witness: a call whose only include path does not exist on the disk
\* returned the list cached for its id under other filters.
C37_Witness ==
    /\ LastResolve
    /\ resource_manager.last.config.filters.include = <<DirB, MissingPath>>
    /\ resource_manager.last.scanned = <<>>
    /\ resource_manager.last.value[1].paths = <<FileY, FileX>>
    /\ DOMAIN resource_manager.path_cache = ConfigIds

\* How often an entry occurs in a list
Occurrences(list, x) == Cardinality({i \in DOMAIN list : list[i] = x})

\* The position in the original of the k-th entry that satisfies the predicate
KthSatisfying(list, predicate, k) ==
    CHOOSE i \in DOMAIN list :
        /\ Satisfies(predicate, list[i])
        /\ Cardinality({j \in 1..(i - 1) : Satisfies(predicate, list[j])}) = k - 1

\* C38: filter returns a new collection with exactly the entries that satisfy
\* the predicate, in their original relative order; sort returns a new
\* collection that is a permutation of the original ordered by the comparison;
\* both leave the original collection as it was.
C38_FilterAndSort ==
    LET l == image_collection.last
        orig == l.before.metadata_list
    IN /\ l.op = "filter" =>
              LET r == l.result[1].metadata_list
              IN /\ Len(r) = Cardinality({i \in DOMAIN orig : Satisfies(l.arg, orig[i])})
                 /\ \A k \in DOMAIN r : r[k] = orig[KthSatisfying(orig, l.arg, k)]
                 /\ image_collection.collection = l.before
       /\ l.op = "sort" =>
              LET r == l.result[1].metadata_list
              IN /\ Len(r) = Len(orig)
                 /\ \A x \in AllMetadata : Occurrences(r, x) = Occurrences(orig, x)
                 /\ \A i, j \in DOMAIN r : i < j => ~Less(l.arg, r[j], r[i])
                 /\ image_collection.collection = l.before

\* C38 witness: a collection with a loaded image, not in order of size and
\* with two entries of one size, was sorted by size.
C38_Witness ==
    LET l == image_collection.last
    IN /\ l.op = "sort"
       /\ l.arg = "by_size"
       /\ Len(l.before.metadata_list) = 3
       /\ l.before.metadata_list[1].file_size = 2048
       /\ l.before.metadata_list[2] = l.before.metadata_list[3]
       /\ l.before.image_cache[1] # None
       /\ l.result[1].metadata_list # l.before.metadata_list

\* C38 witness for filter: entries on both sides of a rejected one were kept.
C38_FilterWitness ==
    LET l == image_collection.last
    IN /\ l.op = "filter"
       /\ l.arg = "is_jpg"
       /\ Len(l.before.metadata_list) = 3
       /\ Len(l.result[1].metadata_list) = 2
       /\ l.result[1].metadata_list[1] # l.result[1].metadata_list[2]

\* C39: the thumbnail size of AllViewer is within 50..=300 after every sequence
\* of set_thumbnail_size, "set_thumbnail_size" API and update_config calls,
\* starting from 150.
C39_ThumbnailSizeInRange ==
    /\ builtin_states.allviewer.thumbnail_size >= ThumbnailMin
    /\ builtin_states.allviewer.thumbnail_size <= ThumbnailMax

\* C39, the part the code keeps: AllViewerPlugin::set_thumbnail_size stores a
\* size within the range, the nearest to the one asked for.
C39_SetterClamps ==
    LET l == builtin_states.last
    IN (l.plugin = "allviewer" /\ l.op = "set_thumbnail_size") =>
          /\ C39_ThumbnailSizeInRange
          /\ (l.arg["size"].u.lo >= ThumbnailMin /\ l.arg["size"].u.lo <= ThumbnailMax) =>
                builtin_states.allviewer.thumbnail_size = l.arg["size"].u.lo

\* What a call asked the difficulty to be, if anything
RequestedDifficulty(l) ==
    IF "difficulty" \in DOMAIN l.arg /\ l.arg["difficulty"].t = "string"
    THEN Some(l.arg["difficulty"].s)
    ELSE None

\* C40: the difficulty of FindMe is "easy", "medium" or "hard" after every
\* set_difficulty, "set_difficulty" API or update_config call; another value
\* is rejected with an error and leaves the difficulty as it was.
C40_DifficultyValid ==
    LET l == builtin_states.last
    IN /\ builtin_states.findme.difficulty \in ValidDifficulties
       /\ (/\ l.plugin = "findme"
           /\ RequestedDifficulty(l) # None
           /\ RequestedDifficulty(l)[1] \notin ValidDifficulties) =>
              /\ ~l.result.ok
              /\ builtin_states.findme.difficulty = l.before.difficulty

\* C40, the part the code keeps: the same for set_difficulty and the
\* "set_difficulty" API handler, from a valid difficulty.
C40_SettersValidate ==
    LET l == builtin_states.last
    IN (/\ l.plugin = "findme"
        /\ l.op \in {"set_difficulty", "api:set_difficulty"}
        /\ l.before.difficulty \in ValidDifficulties) =>
           /\ builtin_states.findme.difficulty \in ValidDifficulties
           /\ (RequestedDifficulty(l) # None
                 /\ RequestedDifficulty(l)[1] \notin ValidDifficulties) =>
                 /\ ~l.result.ok
                 /\ builtin_states.findme = l.before

====
